---- MODULE Spec2Model ----
(***************************************************************************)
(* ScreenshotPro: sitemap discovery, bulk-crawl worker and job store.      *)
(*                                                                         *)
(* Strings the code inspects character by character (URLs, paths, source   *)
(* tags, robots.txt lines) are sequences of one-character strings.         *)
(* Statuses and error messages, which the code only compares or copies,    *)
(* are plain strings.                                                      *)
(***************************************************************************)
EXTENDS Integers, Sequences, FiniteSets, TLC

(***************************************************************************)
(* Bounds of the model                                                     *)
(***************************************************************************)
MaxLocs == 2          \* <loc> entries in one fetched sitemap body

(***************************************************************************)
(* String helpers (String.prototype.startsWith / endsWith / trim / ...)    *)
(***************************************************************************)
StartsWith(s, p) == Len(s) >= Len(p) /\ SubSeq(s, 1, Len(p)) = p

EndsWith(s, p) == Len(s) >= Len(p) /\ SubSeq(s, Len(s) - Len(p) + 1, Len(s)) = p

UPPER == <<"A","B","C","D","E","F","G","H","I","J","K","L","M","N","O","P","Q","R","S","T","U","V","W","X","Y","Z">>

LOWER == <<"a","b","c","d","e","f","g","h","i","j","k","l","m","n","o","p","q","r","s","t","u","v","w","x","y","z">>

LowerMap ==
  [c \in {UPPER[i] : i \in 1..Len(UPPER)} |-> LOWER[CHOOSE i \in 1..Len(UPPER) : UPPER[i] = c]]

LowerChar(c) == IF c \in DOMAIN LowerMap THEN LowerMap[c] ELSE c

ToLowerCase(s) == [i \in 1..Len(s) |-> LowerChar(s[i])]

IsSpace(c) == c \in {" ", "\t", "\r", "\n"}

RECURSIVE TrimStart(_)
TrimStart(s) == IF s # <<>> /\ IsSpace(Head(s)) THEN TrimStart(Tail(s)) ELSE s

RECURSIVE TrimEnd(_)
TrimEnd(s) ==
  IF s # <<>> /\ IsSpace(s[Len(s)]) THEN TrimEnd(SubSeq(s, 1, Len(s) - 1)) ELSE s

Trim(s) == TrimEnd(TrimStart(s))

\* index (1-based) of the first occurrence of character c in s, 0 when absent
IndexOf(s, c) ==
  IF \E i \in 1..Len(s) : s[i] = c
  THEN CHOOSE i \in 1..Len(s) : s[i] = c /\ \A j \in 1..(i - 1) : s[j] # c
  ELSE 0

\* [...new Set(xs)]: the first occurrence of every value, in order
RECURSIVE Dedup(_)
Dedup(xs) ==
  IF Len(xs) <= 1 THEN xs
  ELSE LET half == Len(xs) \div 2
           Added(seen, rest) ==
             seen \o SelectSeq(rest, LAMBDA x : \A i \in 1..Len(seen) : seen[i] # x)
       IN Added(Dedup(SubSeq(xs, 1, half)), Dedup(SubSeq(xs, half + 1, Len(xs))))

NoDuplicates(xs) == \A i, j \in 1..Len(xs) : xs[i] = xs[j] => i = j

\* Array.prototype.slice(0, n)
Slice(xs, n) == SubSeq(xs, 1, IF Len(xs) < n THEN Len(xs) ELSE n)

RECURSIVE SeqsUpTo(_, _)
SeqsUpTo(S, n) ==
  IF n = 0 THEN {<<>>}
  ELSE LET shorter == SeqsUpTo(S, n - 1)
       IN shorter \cup {Append(xs, x) : xs \in {ys \in shorter : Len(ys) = n - 1}, x \in S}

(***************************************************************************)
(* String constants of the program                                         *)
(***************************************************************************)
DOT_XML == <<".","x","m","l">>
HTTP == <<"h","t","t","p">>
HTTP_SCHEME == <<"h","t","t","p",":","/","/">>
HTTPS_SCHEME == <<"h","t","t","p","s",":","/","/">>
ROBOTS_PATH == <<"/","r","o","b","o","t","s",".","t","x","t">>
SITEMAP_DIRECTIVE == <<"s","i","t","e","m","a","p",":">>
DEFAULT_SOURCE == <<"s","i","t","e","m","a","p">>
ROBOTS_TXT == <<"r","o","b","o","t","s","_","t","x","t">>
SCREAMING_FROG == <<"s","c","r","e","a","m","i","n","g","_","f","r","o","g">>
SITEMAP_XML == <<"s","i","t","e","m","a","p","_","x","m","l">>
SITEMAP_INDEX == <<"s","i","t","e","m","a","p","_","i","n","d","e","x">>
SITEMAP_HTML == <<"s","i","t","e","m","a","p","_","h","t","m","l">>
NULL_SOURCE == <<>>

SITEMAP_PATHS == <<
  <<"/","s","i","t","e","m","a","p",".","x","m","l">>,
  <<"/","s","i","t","e","m","a","p","_","i","n","d","e","x",".","x","m","l">>,
  <<"/","s","i","t","e","m","a","p","s",".","x","m","l">>,
  <<"/","s","i","t","e","m","a","p","/">>,
  <<"/","s","i","t","e","m","a","p","/","s","i","t","e","m","a","p",".","x","m","l">>,
  <<"/","w","p","-","s","i","t","e","m","a","p",".","x","m","l">>,
  <<"/","s","i","t","e","m","a","p","-","i","n","d","e","x",".","x","m","l">>,
  <<"/","p","a","g","e","-","s","i","t","e","m","a","p",".","x","m","l">>,
  <<"/","p","o","s","t","-","s","i","t","e","m","a","p",".","x","m","l">> >>

\* CHECK (source IN (...)) of table sitemap_jobs
SitemapSource == {SITEMAP_XML, SITEMAP_INDEX, SITEMAP_HTML, ROBOTS_TXT, SCREAMING_FROG}

JobStatus == {"pending", "processing", "completed", "failed"}

(***************************************************************************)
(* The web as the resolver sees it                                         *)
(***************************************************************************)
PageP == <<"h","t","t","p","s",":","/","/","e","/","p">>
PageQ == <<"h","t","t","p","s",":","/","/","e","/","q">>
SubA == <<"h","t","t","p","s",":","/","/","e","/","a",".","x","m","l">>
LineAgent == <<"U","s","e","r","-","a","g","e","n","t",":"," ","*">>
LineSitemapA == <<"S","i","t","e","m","a","p",":"," ","h","t","t","p","s",":","/","/","e","/","a",".","x","m","l">>
LineLowerP == <<" ","s","i","t","e","m","a","p",":","h","t","t","p","s",":","/","/","e","/","p">>

\* an element of a fetched document: <tag>text</tag>
Element(tag, text) == [tag |-> tag, text |-> text]

\* a fetch outcome: ok = FALSE stands for a non-2xx answer, a timeout or an exception
FetchFailed == [ok |-> FALSE, body |-> <<>>]

FetchOk(body) == [ok |-> TRUE, body |-> body]

SitemapElements == {Element(<<"l","o","c">>, PageP), Element(<<"L","O","C">>, SubA)}

SitemapBodies == SeqsUpTo(SitemapElements, MaxLocs)

SitemapResponses == {FetchFailed} \cup {FetchOk(b) : b \in SitemapBodies}

\* the body served under the one well-known path beyond the first two that answers
OtherBody == <<Element(<<"l","a","s","t","m","o","d">>, PageP), Element(<<"l","o","c">>, PageQ)>>

RobotsResponses ==
  { [ok |-> FALSE, lines |-> <<>>],
    [ok |-> TRUE, lines |-> <<LineAgent>>],
    [ok |-> TRUE, lines |-> <<LineAgent, LineSitemapA>>],
    [ok |-> TRUE, lines |-> <<LineLowerP, LineSitemapA>>] }

\* which further well-known path answers: none (2 is overridden), /sitemap/ or /wp-sitemap.xml
LivePaths == {2, 4, 6}

PathResponses(first, second, k) ==
  [i \in 1..Len(SITEMAP_PATHS) |->
     IF i = 1 THEN first
     ELSE IF i = 2 THEN second
     ELSE IF i = k THEN FetchOk(OtherBody)
     ELSE FetchFailed]

Sites ==
  { [robots |-> r, paths |-> PathResponses(a, b, k), subs |-> (SubA :> s)] :
      r \in RobotsResponses, a \in SitemapResponses, b \in SitemapResponses,
      k \in LivePaths, s \in SitemapResponses }

Domains == { <<"e">> }

\* a fetch that rejects: the AbortController's abort after 5000 ms, a network error,
\* or response.text() failing on a body that cannot be read
FetchTimeout == [ok |-> FALSE, body |-> <<>>, thrown |-> "AbortError"]

FetchException == [ok |-> FALSE, body |-> <<>>, thrown |-> "TypeError"]

FetchBodyError == [ok |-> TRUE, body |-> <<>>, thrown |-> "text"]

Thrown(response) == "thrown" \in DOMAIN response

\* a body that is not a sitemap
NotXmlBody == <<Element(<<"h","t","m","l">>, PageP)>>

\* the ways a candidate fails: non-2xx, timeout, exception, empty or unparseable body
FetchFailures ==
  {FetchFailed, FetchTimeout, FetchException, FetchOk(<<>>), FetchOk(NotXmlBody),
   FetchBodyError}

\* robots.txt failing in the same ways, or naming one sitemap
AsRobots(response) ==
  [f \in (DOMAIN response \ {"body"}) \cup {"lines"} |->
     IF f = "lines" THEN <<>> ELSE response[f]]

FailingRobots ==
  {AsRobots(r) : r \in FetchFailures \ {FetchOk(NotXmlBody)}}
  \cup {[ok |-> TRUE, lines |-> <<LineAgent>>], [ok |-> TRUE, lines |-> <<LineSitemapA>>]}

LeafBody == <<Element(<<"l","o","c">>, PageP)>>

\* the further well-known paths fail in one way, but for path k if k is beyond the second
FailingPaths(first, second, rest, k) ==
  [i \in 1..Len(SITEMAP_PATHS) |->
     IF i = 1 THEN first
     ELSE IF i = 2 THEN second
     ELSE IF i = k THEN FetchOk(OtherBody)
     ELSE rest]

\* a site none of whose candidates answers
DeadSite ==
  [robots |-> AsRobots(FetchFailed),
   paths |-> FailingPaths(FetchFailed, FetchFailed, FetchFailed, 2),
   subs |-> (SubA :> FetchFailed)]

\* sites whose candidates fail in every combination of ways, or answer
FailingSites ==
  { [robots |-> r, paths |-> FailingPaths(a, b, c, k), subs |-> (SubA :> s)] :
      r \in FailingRobots,
      a \in FetchFailures \cup {FetchOk(LeafBody)},
      b \in FetchFailures \cup {FetchOk(LeafBody)},
      c \in FetchFailures,
      k \in {2, 6},
      s \in {FetchTimeout, FetchOk(NotXmlBody), FetchOk(LeafBody)} }

(***************************************************************************)
(* Sitemap resolver (api/v1/sitemap.ts and the discover handler share it)  *)
(***************************************************************************)
MAX_SITEMAPS == 15    \* sitemapUrls.slice(0, 15)
MAX_NESTED == 5       \* subUrls.slice(0, 5)

RECURSIVE StripTrailingSlashes(_)
StripTrailingSlashes(s) ==
  IF s # <<>> /\ s[Len(s)] = "/" THEN StripTrailingSlashes(SubSeq(s, 1, Len(s) - 1)) ELSE s

\* "Normalize domain": trim, default to https://, drop trailing slashes
NormalizeBaseUrl(domain) ==
  LET trimmed == Trim(domain)
      schemed == IF ~StartsWith(trimmed, HTTP_SCHEME) /\ ~StartsWith(trimmed, HTTPS_SCHEME)
                 THEN HTTPS_SCHEME \o trimmed
                 ELSE trimmed
  IN StripTrailingSlashes(schemed)

\* the response of the site's server to a path, or of the host of a sub-sitemap
Serve(site, path, url) ==
  IF \E i \in 1..Len(SITEMAP_PATHS) : SITEMAP_PATHS[i] = path
  THEN site.paths[CHOOSE i \in 1..Len(SITEMAP_PATHS) : SITEMAP_PATHS[i] = path]
  ELSE IF url \in DOMAIN site.subs THEN site.subs[url]
  ELSE FetchFailed

\* what fetch(url) yields on the given site
Fetch(site, baseUrl, url) ==
  Serve(site,
        IF StartsWith(url, baseUrl) THEN SubSeq(url, Len(baseUrl) + 1, Len(url)) ELSE <<>>,
        url)

IsLocTag(e) == ToLowerCase(e.tag) = <<"l","o","c">>

\* /<loc>(.*?)<\/loc>/gi over the document
parseSitemapXml(body) ==
  LET locs == SelectSeq(body, IsLocTag)
  IN [i \in 1..Len(locs) |-> locs[i].text]

IsSitemapDirective(line) == StartsWith(ToLowerCase(Trim(line)), SITEMAP_DIRECTIVE)

parseSitemapFromRobotsTxt(lines) ==
  LET hits == SelectSeq(lines, IsSitemapDirective)
  IN [i \in 1..Len(hits) |-> Trim(SubSeq(hits[i], IndexOf(hits[i], ":") + 1, Len(hits[i])))]

\* if (!response.ok) return null; return parseSitemapXml(content)
ParseResponse(response) ==
  IF ~response.ok
  THEN [null |-> TRUE, urls |-> <<>>]
  ELSE [null |-> FALSE, urls |-> parseSitemapXml(response.body)]

\* null stands for the null the code returns on a failed fetch, the one of
\* try { ... } catch { return null } included
trySitemapUrl(site, baseUrl, url) ==
  IF Thrown(Fetch(site, baseUrl, url))
  THEN [null |-> TRUE, urls |-> <<>>]
  ELSE ParseResponse(Fetch(site, baseUrl, url))

XmlCount(urls) == Cardinality({i \in 1..Len(urls) : EndsWith(urls[i], DOT_XML)})

\* an index from half of the entries on
isSitemapIndex_FromHalf(urls) ==
  IF Len(urls) = 0 THEN FALSE
  ELSE 2 * XmlCount(urls) >= Len(urls)

isSitemapIndex(urls) ==
  IF Len(urls) = 0 THEN FALSE
  ELSE 2 * XmlCount(urls) > Len(urls)

FetchEntry(kind, url) == [kind |-> kind, url |-> url]

NoUrls == [urls |-> <<>>, fetched |-> <<>>]

\* two runs of fetches one after the other, with the fetch of url before them
Joined(kind, url, this, rest) ==
  [urls |-> this.urls \o rest.urls,
   fetched |-> <<FetchEntry(kind, url)>> \o this.fetched \o rest.fetched]

\* allUrls.push(...nestedSubUrls) when the fetch did not fail
NestedUrls(nestedSubUrls) ==
  [urls |-> IF nestedSubUrls.null THEN <<>> ELSE nestedSubUrls.urls, fetched |-> <<>>]

\* for (const nestedUrl of subUrls.slice(0, 5)): [urls, fetched] of the nested sitemaps
RECURSIVE ExpandNested(_, _, _)
ExpandNested(site, baseUrl, nested) ==
  IF nested = <<>> THEN NoUrls
  ELSE Joined("nested", Head(nested),
              NestedUrls(trySitemapUrl(site, baseUrl, Head(nested))),
              ExpandNested(site, baseUrl, Tail(nested)))

\* a loop body that fetches every entry of a nested index
SubUrls_AllNested(site, baseUrl, subUrls) ==
  IF ~subUrls.null /\ Len(subUrls.urls) > 0
  THEN IF isSitemapIndex(subUrls.urls)
       THEN ExpandNested(site, baseUrl, subUrls.urls)
       ELSE [urls |-> subUrls.urls, fetched |-> <<>>]
  ELSE NoUrls

\* the body of the loop of expandSitemapIndex for one fetched sitemap
SubUrls(site, baseUrl, subUrls) ==
  IF ~subUrls.null /\ Len(subUrls.urls) > 0
  THEN IF isSitemapIndex(subUrls.urls)
       THEN ExpandNested(site, baseUrl, Slice(subUrls.urls, MAX_NESTED))
       ELSE [urls |-> subUrls.urls, fetched |-> <<>>]
  ELSE NoUrls

\* for (const sitemapUrl of sitemapUrls.slice(0, 15)): [urls, fetched] of the sitemaps
RECURSIVE ExpandLoop(_, _, _)
ExpandLoop(site, baseUrl, sitemapUrls) ==
  IF sitemapUrls = <<>> THEN NoUrls
  ELSE Joined("sub", Head(sitemapUrls),
              SubUrls(site, baseUrl, trySitemapUrl(site, baseUrl, Head(sitemapUrls))),
              ExpandLoop(site, baseUrl, Tail(sitemapUrls)))

\* return allUrls as gathered
Deduped_AsGathered(all) == all

\* return [...new Set(allUrls)]
Deduped(all) == [urls |-> Dedup(all.urls), fetched |-> all.fetched]

\* result: [urls, fetched]; fetched lists the fetches made, in order
expandSitemapIndex(site, baseUrl, sitemapUrls) ==
  Deduped(ExpandLoop(site, baseUrl, Slice(sitemapUrls, MAX_SITEMAPS)))

\* path.replace(/^\//, '').replace(/\//g, '_') || 'sitemap'
SourceOfPath(path) ==
  LET stripped == IF path # <<>> /\ Head(path) = "/" THEN Tail(path) ELSE path
      replaced == [i \in 1..Len(stripped) |-> IF stripped[i] = "/" THEN "_" ELSE stripped[i]]
  IN IF replaced = <<>> THEN DEFAULT_SOURCE ELSE replaced

NothingFound == [foundUrls |-> <<>>, source |-> NULL_SOURCE, fetched |-> <<>>]

\* the fetches of log, then those of found
After(log, found) == [found EXCEPT !.fetched = log \o @]

\* foundUrls = await expandSitemapIndex(sitemapUrls); if (foundUrls.length > 0) source = ...
RobotsFound(expanded) ==
  [foundUrls |-> expanded.urls,
   source |-> IF Len(expanded.urls) > 0 THEN ROBOTS_TXT ELSE NULL_SOURCE,
   fetched |-> expanded.fetched]

\* if (response.ok) and the sitemapUrls of robots.txt; a rejected fetch is caught
FromRobotsTxt(site, baseUrl, sitemapUrls) ==
  IF ~Thrown(site.robots) /\ site.robots.ok /\ Len(sitemapUrls) > 0
  THEN RobotsFound(expandSitemapIndex(site, baseUrl, sitemapUrls))
  ELSE NothingFound

\* "First try robots.txt for sitemap references": [foundUrls, source, fetched]
TryRobotsTxt(site, baseUrl) ==
  After(<<FetchEntry("robots", baseUrl \o ROBOTS_PATH)>>,
        FromRobotsTxt(site, baseUrl, parseSitemapFromRobotsTxt(site.robots.lines)))

\* if (isSitemapIndex(urls)) foundUrls = await expandSitemapIndex(urls) else foundUrls = urls
PathUrls(site, baseUrl, urls) ==
  IF ~urls.null /\ Len(urls.urls) > 0
  THEN IF isSitemapIndex(urls.urls)
       THEN expandSitemapIndex(site, baseUrl, urls.urls)
       ELSE [urls |-> urls.urls, fetched |-> <<>>]
  ELSE NoUrls

\* for (const path of SITEMAP_PATHS), from index i on: [foundUrls, source, fetched]
RECURSIVE TrySitemapPaths(_, _, _)

\* one turn of the loop, expanded being what path i gave: break, or go on
PathFound(site, baseUrl, i, expanded) ==
  After(<<FetchEntry("path", baseUrl \o SITEMAP_PATHS[i])>> \o expanded.fetched,
        IF Len(expanded.urls) > 0
        THEN [foundUrls |-> expanded.urls, source |-> SourceOfPath(SITEMAP_PATHS[i]),
              fetched |-> <<>>]
        ELSE TrySitemapPaths(site, baseUrl, i + 1))

TrySitemapPaths(site, baseUrl, i) ==
  IF i > Len(SITEMAP_PATHS) THEN NothingFound
  ELSE PathFound(site, baseUrl, i,
                 PathUrls(site, baseUrl,
                          trySitemapUrl(site, baseUrl, baseUrl \o SITEMAP_PATHS[i])))

\* if (foundUrls.length === 0): the paths loop
OrSitemapPaths(site, baseUrl, robots) ==
  IF Len(robots.foundUrls) = 0
  THEN After(robots.fetched, TrySitemapPaths(site, baseUrl, 1))
  ELSE robots

\* the reverse: robots.txt only if the paths loop found nothing
OrRobotsTxt(site, baseUrl, paths) ==
  IF Len(paths.foundUrls) = 0
  THEN After(paths.fetched, TryRobotsTxt(site, baseUrl))
  ELSE paths

\* a chain that tries the well-known paths before robots.txt
ResolveSitemap_PathsFirst(site, baseUrl) ==
  OrRobotsTxt(site, baseUrl, TrySitemapPaths(site, baseUrl, 1))

\* the strategy chain of the handlers: [foundUrls, source, fetched]
ResolveSitemap(site, baseUrl) ==
  OrSitemapPaths(site, baseUrl, TryRobotsTxt(site, baseUrl))

\* the call sites of fetch that sit in a try with a catch of their own: the robots.txt
\* fetch of the handler, and trySitemapUrl for sub-sitemaps, nested ones and paths
CaughtAt_RobotsOnly(kind) == kind = "robots"

CaughtAt(kind) == kind \in {"robots", "sub", "nested", "path"}

\* the fetch of this entry of the log rejected
Rejected(site, baseUrl, entry) ==
  IF entry.kind = "robots" THEN Thrown(site.robots)
  ELSE Thrown(Fetch(site, baseUrl, entry.url))

\* a rejected fetch reaches the catch of the handler
Uncaught(site, baseUrl, fetched) ==
  \E i \in 1..Len(fetched) :
    Rejected(site, baseUrl, fetched[i]) /\ ~CaughtAt(fetched[i].kind)


(***************************************************************************)
(* State                                                                   *)
(***************************************************************************)
VARIABLES
  v1,            \* the request api/v1/sitemap is serving, and its response
  sitemap_jobs,  \* table sitemap_jobs: row id = position
  crawl_jobs,    \* table crawl_jobs: row id = position
  discovers,     \* discover requests between their insert and their final update
  starts,        \* start-crawl requests between their insert and their update
  polls,         \* the crawl worker's pollForJobs calls in progress
  procs,         \* per call: the Screaming Frog subprocess and its timers
  history,       \* per crawl job: writes of status processing, spawns, output directory
  discover,      \* a discover request served against one site, and its response
  screenshot_jobs, \* table screenshot_jobs: row id = position
  generate,      \* the request screenshots/generate is serving, and its response
  fn,            \* a function of the resolver or of the page under application
  watch,         \* the page's poll watchers: their intervals and give-up timers
  ticks          \* the screenshot worker's pollForJobs calls in progress, and its captures

vars == <<v1, sitemap_jobs, crawl_jobs, discovers, starts, polls, procs, history,
          discover, screenshot_jobs, generate, fn, watch, ticks>>

\* the variables of the single-request specifications below the job store's
sideVars == <<discover, screenshot_jobs, generate, fn, watch, ticks>>

storeVars == <<sitemap_jobs, crawl_jobs, discovers, starts, polls, procs, history>>

(***************************************************************************)
(* Job store (supabase/migrations/001_initial_schema.sql)                  *)
(***************************************************************************)
MaxSitemapJobs == 1   \* rows of sitemap_jobs
MaxCrawlJobs == 1     \* rows of crawl_jobs
MaxPolls == 2         \* pollForJobs calls in progress at once

Users == {"u1", "u2"}

NULL_TEXT == <<>>      \* a NULL error_message
NULL_TIME == "null"    \* a NULL timestamp
NOW == "recorded"      \* new Date().toISOString() / NOW()
NULL_ID == 0           \* a NULL sitemap_job_id
DEFAULT_MAX_URLS == 500
DEFAULT_CRAWL_DEPTH == 3

Terminal(status) == status \in {"completed", "failed"}

\* row with the columns the patch names overwritten
Merge(row, patch) == [f \in DOMAIN row |-> IF f \in DOMAIN patch THEN patch[f] ELSE row[f]]

SitemapJobChecks(row) ==
  /\ row.status \in JobStatus
  /\ row.source = NULL_SOURCE \/ row.source \in SitemapSource

\* supabase.from('sitemap_jobs').update(patch).eq('id', id): a row that would break
\* a CHECK constraint is left as it was, and the error is returned, not thrown
UpdateSitemapJob(table, id, patch) ==
  IF id \in 1..Len(table) /\ SitemapJobChecks(Merge(table[id], patch))
  THEN [table EXCEPT ![id] = Merge(@, patch)]
  ELSE table

\* supabase.from('crawl_jobs').update(patch).eq('id', id)
UpdateCrawlJob(table, id, patch) ==
  IF id \in 1..Len(table) /\ Merge(table[id], patch).status \in JobStatus
  THEN [table EXCEPT ![id] = Merge(@, patch)]
  ELSE table

NewSitemapJob(user, domain, status, at) ==
  [user_id |-> user, domain |-> domain, status |-> status, urls |-> <<>>,
   source |-> NULL_SOURCE, error_message |-> NULL_TEXT, created_at |-> at,
   completed_at |-> NULL_TIME]

NewCrawlJob(user, sitemapJobId, domain, at) ==
  [user_id |-> user, sitemap_job_id |-> sitemapJobId, domain |-> domain,
   status |-> "pending", max_urls |-> DEFAULT_MAX_URLS,
   crawl_depth |-> DEFAULT_CRAWL_DEPTH, discovered_urls |-> <<>>,
   error_message |-> NULL_TEXT, started_at |-> NULL_TIME, completed_at |-> NULL_TIME,
   created_at |-> at]

(***************************************************************************)
(* POST /api/sitemap/discover                                              *)
(***************************************************************************)
NO_SITEMAP_FOUND == <<"No sitemap found">>

\* what the strategy chain can come to on the sites of the model
DiscoverOutcomes ==
  {[urls |-> found.foundUrls, source |-> found.source] :
     found \in {ResolveSitemap(site, NormalizeBaseUrl(d)) : site \in Sites, d \in Domains}}

\* auth and input checks, then the insert with status processing
DiscoverInsert(user, domain) ==
  /\ domain # <<>>
  /\ Len(sitemap_jobs) < MaxSitemapJobs
  /\ LET id == Len(sitemap_jobs) + 1
     IN /\ sitemap_jobs' = Append(sitemap_jobs,
                                  NewSitemapJob(user, NormalizeBaseUrl(domain), "processing", id))
        /\ discovers' = discovers \cup {id}
  /\ UNCHANGED <<sideVars, v1, crawl_jobs, starts, polls, procs, history>>

\* the update to completed with the list, or to failed with 'No sitemap found'
DiscoverUpdate(table, id, found) ==
  IF Len(found.urls) > 0
  THEN UpdateSitemapJob(table, id,
         [status |-> "completed", urls |-> found.urls, source |-> found.source,
          completed_at |-> NOW])
  ELSE UpdateSitemapJob(table, id,
         [status |-> "failed", error_message |-> NO_SITEMAP_FOUND,
          completed_at |-> NOW])

\* the strategy chain has come to `found`: the final update of the job
DiscoverFinish(id, found) ==
  /\ id \in discovers
  /\ discovers' = discovers \ {id}
  /\ sitemap_jobs' = DiscoverUpdate(sitemap_jobs, id, found)
  /\ UNCHANGED <<sideVars, v1, crawl_jobs, starts, polls, procs, history>>

\* the handler against one site, from the request to the response
Tokens == {"missing", "invalid", "valid"}

NoDiscoverResponse ==
  [code |-> 0, success |-> FALSE, jobId |-> NULL_ID, urls |-> <<>>,
   source |-> NULL_SOURCE, requiresCrawl |-> FALSE]

DiscoverError(code) == [NoDiscoverResponse EXCEPT !.code = code]

DiscoverIdle ==
  [pc |-> "idle", method |-> "POST", token |-> "valid", user |-> "u1", domain |-> <<>>,
   site |-> DeadSite, response |-> NoDiscoverResponse,
   fetched |-> <<>>]

DiscoverRespond(table, response, fetched) ==
  /\ discover' = [discover EXCEPT !.pc = "responded", !.response = response,
                                  !.fetched = fetched]
  /\ sitemap_jobs' = table
  /\ UNCHANGED <<v1, crawl_jobs, discovers, starts, polls, procs, history,
                 screenshot_jobs, generate, fn, watch, ticks>>

\* res.json({success: true, jobId, urls, source, ...}), or
\* res.json({success: false, jobId, urls: [], source: null, requiresCrawl: true, ...})
DiscoverResponse(id, found) ==
  IF Len(found.urls) > 0
  THEN [code |-> 200, success |-> TRUE, jobId |-> id, urls |-> found.urls,
        source |-> found.source, requiresCrawl |-> FALSE]
  ELSE [code |-> 200, success |-> FALSE, jobId |-> id, urls |-> <<>>,
        source |-> NULL_SOURCE, requiresCrawl |-> TRUE]

\* the part of the handler after the insert of job id into table
DiscoverResolved(table, id, baseUrl, resolved) ==
  IF Uncaught(discover.site, baseUrl, resolved.fetched)
  THEN DiscoverRespond(table, DiscoverError(500), resolved.fetched)
  ELSE DiscoverRespond(
         DiscoverUpdate(table, id, [urls |-> resolved.foundUrls, source |-> resolved.source]),
         DiscoverResponse(id, [urls |-> resolved.foundUrls, source |-> resolved.source]),
         resolved.fetched)

DiscoverCreated(baseUrl) ==
  DiscoverResolved(Append(sitemap_jobs,
                          NewSitemapJob(discover.user, baseUrl, "processing",
                                        Len(sitemap_jobs) + 1)),
                   Len(sitemap_jobs) + 1, baseUrl,
                   ResolveSitemap(discover.site, baseUrl))

DiscoverSitemap ==
  /\ discover.pc = "request"
  /\ IF discover.method # "POST" THEN DiscoverRespond(sitemap_jobs, DiscoverError(405), <<>>)
     ELSE IF discover.token # "valid"
       THEN DiscoverRespond(sitemap_jobs, DiscoverError(401), <<>>)
     ELSE IF discover.domain = <<>>
       THEN DiscoverRespond(sitemap_jobs, DiscoverError(400), <<>>)
     ELSE DiscoverCreated(NormalizeBaseUrl(discover.domain))

(***************************************************************************)
(* POST /api/sitemap/start-crawl                                           *)
(***************************************************************************)
\* the insert of the crawl job; a sitemap_job_id must name a row (foreign key)
StartCrawlInsert(user, sitemapJobId, domain) ==
  /\ domain # <<>>
  /\ sitemapJobId = NULL_ID \/ sitemapJobId \in 1..Len(sitemap_jobs)
  /\ crawl_jobs' = Append(crawl_jobs,
                          NewCrawlJob(user, sitemapJobId, domain, Len(crawl_jobs) + 1))
  /\ history' = Append(history, [marked |-> 0, spawned |-> 0, outputDir |-> "absent"])
  /\ starts' = IF sitemapJobId # NULL_ID THEN starts \cup {sitemapJobId} ELSE starts
  /\ UNCHANGED <<sideVars, v1, sitemap_jobs, discovers, polls, procs>>

\* "Update sitemap job status if provided"
StartCrawlUpdate(sitemapJobId) ==
  /\ sitemapJobId \in starts
  /\ starts' = starts \ {sitemapJobId}
  /\ sitemap_jobs' = UpdateSitemapJob(sitemap_jobs, sitemapJobId,
                       [status |-> "processing", source |-> SCREAMING_FROG])
  /\ UNCHANGED <<sideVars, v1, crawl_jobs, discovers, polls, procs, history>>

(***************************************************************************)
(* Crawl worker (worker/crawl-worker.js)                                   *)
(***************************************************************************)
MaxRows == 2          \* rows of one Screaming Frog export

MAX_CRAWL_TIME == 900000

TEXT_HTML == <<"t","e","x","t","/","h","t","m","l">>
STATUS_200 == <<"2","0","0">>
STATUS_404 == <<"4","0","4">>

Includes(s, sub) == \E i \in 1..(Len(s) - Len(sub) + 1) : SubSeq(s, i, i + Len(sub) - 1) = sub

Columns == {"Address", "URL", "address", "url", "Status Code", "status_code",
            "Content Type", "content_type"}

\* a record of the export: a missing or empty cell is the empty string
CsvRow(cells) == [c \in Columns |-> IF c \in DOMAIN cells THEN cells[c] ELSE <<>>]

\* a || b for strings
Or(a, b) == IF a # <<>> THEN a ELSE b

CsvRows ==
  { CsvRow(("Address" :> PageP) @@ ("Status Code" :> STATUS_200)
           @@ ("Content Type" :> TEXT_HTML \o <<";"," ","c","h","a","r","s","e","t","=","U","T","F","-","8">>)),
    CsvRow(("Address" :> PageQ) @@ ("Status Code" :> STATUS_404) @@ ("Content Type" :> TEXT_HTML)),
    CsvRow(("url" :> PageQ)),
    CsvRow(("URL" :> <<"/","r">>) @@ ("status_code" :> STATUS_200)),
    CsvRow(("Address" :> PageP) @@ ("Status Code" :> STATUS_200)
           @@ ("content_type" :> <<"i","m","a","g","e","/","p","n","g">>)) }

\* what the crawl left in the output directory
Exports ==
  {[kind |-> "missing", rows |-> <<>>], [kind |-> "unreadable", rows |-> <<>>]}
  \cup {[kind |-> "table", rows |-> rows] : rows \in SeqsUpTo(CsvRows, MaxRows)}

\* a filter that does not look at the status code
KeepRecord_AnyStatus(record) ==
  LET url == Or(record["Address"], Or(record["URL"], Or(record["address"], record["url"])))
      contentType == Or(record["Content Type"], record["content_type"])
  IN /\ url # <<>> /\ StartsWith(url, HTTP)
     /\ contentType = <<>> \/ Includes(contentType, TEXT_HTML)

KeepRecord(record) ==
  LET url == Or(record["Address"], Or(record["URL"], Or(record["address"], record["url"])))
      statusCode == Or(record["Status Code"], record["status_code"])
      contentType == Or(record["Content Type"], record["content_type"])
  IN /\ url # <<>> /\ StartsWith(url, HTTP)
     /\ statusCode = <<>> \/ statusCode = STATUS_200
     /\ contentType = <<>> \/ Includes(contentType, TEXT_HTML)

RecordUrl(record) ==
  Or(record["Address"], Or(record["URL"], Or(record["address"], record["url"])))

parseCSVFile(records) ==
  LET kept == SelectSeq(records, KeepRecord)
  IN Dedup([i \in 1..Len(kept) |-> RecordUrl(kept[i])])

TimeoutMessage == <<"Crawl timed out after ", ToString(MAX_CRAWL_TIME), "ms">>

ExitMessage(code, stderr) == <<"Screaming Frog exited with code ", ToString(code), ": ", stderr>>

CSV_NOT_FOUND == <<"CSV output not found in ", "outputDir">>

ExitCodes == {0, 1}

Stderrs == {"licence"}

NO_EXIT == -1         \* the subprocess has given no exit code

NoJob == [id |-> NULL_ID, sitemap_job_id |-> NULL_ID, domain |-> <<>>]

IdlePoll == [pc |-> "idle", job |-> NoJob, error |-> NULL_TEXT, urls |-> <<>>,
             export |-> "none"]

NoProc == [state |-> "none", killed |-> FALSE, signals |-> <<>>, timeout |-> "none",
           grace |-> "none", exit |-> NO_EXIT]

\* slot w after a step: a call that has returned frees the slot once its timers are
\* spent and its subprocess is gone, or is running on with every handler of the call
\* (close, timeout, grace) without effect: later ticks of the interval do not wait for it
SetSlot(w, poll, proc) ==
  LET spent == /\ poll.pc = "done"
               /\ proc.timeout # "armed" /\ proc.grace # "armed"
  IN /\ polls' = [polls EXCEPT ![w] = IF spent THEN IdlePoll ELSE poll]
     /\ procs' = [procs EXCEPT ![w] = IF spent THEN NoProc ELSE proc]

PendingCrawlJobs == {i \in 1..Len(crawl_jobs) : crawl_jobs[i].status = "pending"}

\* a select that orders by created_at descending
SelectPending_Newest(pending) ==
  CHOOSE i \in pending : \A j \in pending : crawl_jobs[i].created_at >= crawl_jobs[j].created_at

\* .eq('status', 'pending').order('created_at', { ascending: true }).limit(1)
SelectPending(pending) ==
  CHOOSE i \in pending : \A j \in pending : crawl_jobs[i].created_at <= crawl_jobs[j].created_at

\* a tick of setInterval(pollForJobs): the select, up to the call of processCrawlJob
pollForJobs(w) ==
  /\ polls[w].pc = "idle"
  /\ \A v \in 1..(w - 1) : polls[v].pc # "idle"
  /\ PendingCrawlJobs # {}
  /\ LET id == SelectPending(PendingCrawlJobs)
     IN polls' = [polls EXCEPT ![w] =
                    [IdlePoll EXCEPT !.pc = "picked",
                                     !.job = [id |-> id,
                                              sitemap_job_id |-> crawl_jobs[id].sitemap_job_id,
                                              domain |-> crawl_jobs[id].domain]]]
  /\ UNCHANGED <<sideVars, v1, sitemap_jobs, crawl_jobs, discovers, starts, procs, history>>

\* a runCrawl that sets no timeout timer
MarkProcessing_NoTimer(w, started) ==
  /\ polls[w].pc = "picked"
  /\ crawl_jobs' = UpdateCrawlJob(crawl_jobs, polls[w].job.id,
                                  [status |-> "processing", started_at |-> NOW])
  /\ IF started = "mkdir"
     THEN /\ polls' = [polls EXCEPT ![w].pc = "catch", ![w].error = <<"EACCES: mkdir">>]
          /\ history' = [history EXCEPT ![polls[w].job.id].marked = @ + 1]
          /\ UNCHANGED procs
     ELSE /\ procs' = [procs EXCEPT ![w] =
                         [NoProc EXCEPT !.state = IF started = "error" THEN "failed" ELSE "running",
                                        !.timeout = "none"]]
          /\ history' = [history EXCEPT ![polls[w].job.id] =
                            [marked |-> @.marked + 1, spawned |-> @.spawned + 1,
                             outputDir |-> "present"]]
          /\ polls' = IF started = "error"
                      THEN [polls EXCEPT ![w].pc = "catch", ![w].error = <<"spawn ENOENT">>]
                      ELSE [polls EXCEPT ![w].pc = "waiting"]
  /\ UNCHANGED <<sideVars, v1, sitemap_jobs, discovers, starts>>

\* processCrawlJob from "Update job status to processing" to the await of runCrawl:
\* the update, the output directory of the job (rm, then mkdir), spawn and the timeout
\* timer; started = "mkdir" when the directory cannot be made and is as it was, "error"
\* when the process cannot be started (its 'error' event rejects)
MarkProcessing(w, started) ==
  /\ polls[w].pc = "picked"
  /\ crawl_jobs' = UpdateCrawlJob(crawl_jobs, polls[w].job.id,
                                  [status |-> "processing", started_at |-> NOW])
  /\ IF started = "mkdir"
     THEN /\ polls' = [polls EXCEPT ![w].pc = "catch", ![w].error = <<"EACCES: mkdir">>]
          /\ history' = [history EXCEPT ![polls[w].job.id].marked = @ + 1]
          /\ UNCHANGED procs
     ELSE /\ procs' = [procs EXCEPT ![w] =
                         [NoProc EXCEPT !.state = IF started = "error" THEN "failed" ELSE "running",
                                        !.timeout = "armed"]]
          /\ history' = [history EXCEPT ![polls[w].job.id] =
                            [marked |-> @.marked + 1, spawned |-> @.spawned + 1,
                             outputDir |-> "present"]]
          /\ polls' = IF started = "error"
                      THEN [polls EXCEPT ![w].pc = "catch", ![w].error = <<"spawn ENOENT">>]
                      ELSE [polls EXCEPT ![w].pc = "waiting"]
  /\ UNCHANGED <<sideVars, v1, sitemap_jobs, discovers, starts>>

\* a 'close' handler whose resolve or reject replaces an outcome already given
ProcClose_Resettles(w, code, stderr) ==
  /\ procs[w].state = "running"
  /\ SetSlot(w,
       IF polls[w].pc \notin {"waiting", "catch"} THEN polls[w]
       ELSE IF code = 0 THEN [polls[w] EXCEPT !.pc = "parse", !.error = NULL_TEXT]
       ELSE [polls[w] EXCEPT !.pc = "catch", !.error = ExitMessage(code, stderr)],
       [procs[w] EXCEPT !.state = "exited", !.exit = code,
                        !.timeout = IF @ = "armed" THEN "cleared" ELSE @])
  /\ UNCHANGED <<sideVars, v1, sitemap_jobs, crawl_jobs, discovers, starts, history>>

\* sfProcess.on('close'): both handlers
ProcClose(w, code, stderr) ==
  /\ procs[w].state = "running"
  /\ SetSlot(w,
       IF polls[w].pc # "waiting" THEN polls[w]
       ELSE IF code = 0 THEN [polls[w] EXCEPT !.pc = "parse"]
       ELSE [polls[w] EXCEPT !.pc = "catch", !.error = ExitMessage(code, stderr)],
       [procs[w] EXCEPT !.state = "exited", !.exit = code,
                        !.timeout = IF @ = "armed" THEN "cleared" ELSE @])
  /\ UNCHANGED <<sideVars, v1, sitemap_jobs, crawl_jobs, discovers, starts, history>>

\* subprocess.kill(signal): delivered only to a live process, and then killed is set
Kill(proc, signal) ==
  IF proc.state = "running"
  THEN [proc EXCEPT !.signals = Append(@, signal), !.killed = TRUE]
  ELSE proc

\* a timeout handler that signals the subprocess and leaves the promise to 'close'
CrawlTimeout_AwaitsExit(w) ==
  /\ procs[w].timeout = "armed"
  /\ SetSlot(w, polls[w],
       [Kill(procs[w], "SIGTERM") EXCEPT !.timeout = "fired", !.grace = "armed"])
  /\ UNCHANGED <<sideVars, v1, sitemap_jobs, crawl_jobs, discovers, starts, history>>

\* "Timeout handler": the callback of setTimeout(..., MAX_CRAWL_TIME)
CrawlTimeout(w) ==
  /\ procs[w].timeout = "armed"
  /\ SetSlot(w,
       IF polls[w].pc = "waiting"
       THEN [polls[w] EXCEPT !.pc = "catch", !.error = TimeoutMessage]
       ELSE polls[w],
       [Kill(procs[w], "SIGTERM") EXCEPT !.timeout = "fired", !.grace = "armed"])
  /\ UNCHANGED <<sideVars, v1, sitemap_jobs, crawl_jobs, discovers, starts, history>>

\* the inner setTimeout(..., 5000)
GraceTimeout(w) ==
  /\ procs[w].grace = "armed"
  /\ SetSlot(w, polls[w],
       [(IF ~procs[w].killed THEN Kill(procs[w], "SIGKILL") ELSE procs[w])
          EXCEPT !.grace = "fired"])
  /\ UNCHANGED <<sideVars, v1, sitemap_jobs, crawl_jobs, discovers, starts, history>>

\* a parseCSVOutput that takes a missing or unreadable export for an empty one
ParseAndComplete_EmptyOnMissing(w, export) ==
  /\ polls[w].pc = "parse"
  /\ LET urls == IF export.kind = "table" THEN parseCSVFile(export.rows) ELSE <<>>
     IN /\ crawl_jobs' = UpdateCrawlJob(crawl_jobs, polls[w].job.id,
                           [status |-> "completed", discovered_urls |-> urls,
                            completed_at |-> NOW])
        /\ polls' = [polls EXCEPT ![w].pc = "propagate", ![w].urls = urls,
                                   ![w].export = export.kind]
  /\ UNCHANGED <<sideVars, v1, sitemap_jobs, discovers, starts, procs, history>>

\* parseCSVOutput on what the crawl left (export), then "Update job with results"
ParseAndComplete(w, export) ==
  /\ polls[w].pc = "parse"
  /\ IF export.kind = "table"
     THEN LET urls == parseCSVFile(export.rows)
          IN /\ crawl_jobs' = UpdateCrawlJob(crawl_jobs, polls[w].job.id,
                                [status |-> "completed", discovered_urls |-> urls,
                                 completed_at |-> NOW])
             /\ polls' = [polls EXCEPT ![w].pc = "propagate", ![w].urls = urls,
                                        ![w].export = export.kind]
     ELSE /\ polls' = [polls EXCEPT ![w].pc = "catch", ![w].export = export.kind,
                                    ![w].error = IF export.kind = "missing" THEN CSV_NOT_FOUND
                                                 ELSE <<"Invalid Record Length">>]
          /\ UNCHANGED crawl_jobs
  /\ UNCHANGED <<sideVars, v1, sitemap_jobs, discovers, starts, procs, history>>

\* "Update associated sitemap job if exists", "Cleanup output directory" (removed says
\* whether rm succeeded; its failure is caught and logged, the directory is stuck), return
FinishCompleted(w, removed) ==
  /\ polls[w].pc = "propagate"
  /\ sitemap_jobs' =
       IF polls[w].job.sitemap_job_id # NULL_ID
       THEN UpdateSitemapJob(sitemap_jobs, polls[w].job.sitemap_job_id,
              [status |-> "completed", urls |-> polls[w].urls, source |-> SCREAMING_FROG,
               completed_at |-> NOW])
       ELSE sitemap_jobs
  /\ history' = [history EXCEPT ![polls[w].job.id].outputDir =
                    IF removed THEN "absent" ELSE "stuck"]
  /\ SetSlot(w, [polls[w] EXCEPT !.pc = "done"], procs[w])
  /\ UNCHANGED <<sideVars, v1, crawl_jobs, discovers, starts>>

\* catch: "Update job with error"
WriteFailed(w) ==
  /\ polls[w].pc = "catch"
  /\ crawl_jobs' = UpdateCrawlJob(crawl_jobs, polls[w].job.id,
                     [status |-> "failed", error_message |-> polls[w].error,
                      completed_at |-> NOW])
  /\ polls' = [polls EXCEPT ![w].pc = "propagateFailed"]
  /\ UNCHANGED <<sideVars, v1, sitemap_jobs, discovers, starts, procs, history>>

\* catch: "Update associated sitemap job if exists", return
FinishFailed(w) ==
  /\ polls[w].pc = "propagateFailed"
  /\ sitemap_jobs' =
       IF polls[w].job.sitemap_job_id # NULL_ID
       THEN UpdateSitemapJob(sitemap_jobs, polls[w].job.sitemap_job_id,
              [status |-> "failed", error_message |-> polls[w].error,
               completed_at |-> NOW])
       ELSE sitemap_jobs
  /\ SetSlot(w, [polls[w] EXCEPT !.pc = "done"], procs[w])
  /\ UNCHANGED <<sideVars, v1, crawl_jobs, discovers, starts, history>>

(***************************************************************************)
(* POST /api/screenshots/generate                                          *)
(***************************************************************************)
MAX_URLS_PER_BATCH == 100

viewportPresets ==
  [desktop |-> [width |-> 1920, height |-> 1080],
   tablet |-> [width |-> 768, height |-> 1024],
   mobile |-> [width |-> 375, height |-> 667]]

OptionFields ==
  {"fullPage", "scrollPage", "fresh", "noAds", "noCookies", "viewport", "deviceType",
   "delay", "format", "quality"}

\* a value for each field that differs from the default the handler fills in
SuppliedOptions ==
  [fullPage |-> FALSE, scrollPage |-> TRUE, fresh |-> TRUE, noAds |-> TRUE,
   noCookies |-> TRUE, viewport |-> [width |-> 800, height |-> 600],
   deviceType |-> "mobile", delay |-> 0, format |-> "jpeg", quality |-> 50]

\* options a caller sends: a record of the fields it supplies
OptionsOf(fields) == [f \in fields |-> SuppliedOptions[f]]

CallerOptions ==
  {OptionsOf(fields) :
     fields \in {S \in SUBSET OptionFields : Cardinality(S) <= 2 \/ S = OptionFields}}

\* options.f ?? default
OrDefault(options, f, default) == IF f \in DOMAIN options THEN options[f] ELSE default

\* a resolution that lets the preset of the device type win over a viewport given
ResolveViewport_PresetFirst(options) ==
  IF "deviceType" \in DOMAIN options THEN viewportPresets[options.deviceType]
  ELSE IF "viewport" \in DOMAIN options THEN options.viewport
  ELSE viewportPresets.desktop

\* "Resolve viewport from device type"
ResolveViewport(options) ==
  IF "viewport" \in DOMAIN options THEN options.viewport
  ELSE IF "deviceType" \in DOMAIN options THEN viewportPresets[options.deviceType]
  ELSE viewportPresets.desktop

\* the options object of each row
JobOptions(options) ==
  [fullPage |-> OrDefault(options, "fullPage", TRUE),
   scrollPage |-> OrDefault(options, "scrollPage", FALSE),
   fresh |-> OrDefault(options, "fresh", FALSE),
   noAds |-> OrDefault(options, "noAds", FALSE),
   noCookies |-> OrDefault(options, "noCookies", FALSE),
   viewport |-> ResolveViewport(options),
   deviceType |-> OrDefault(options, "deviceType", "desktop"),
   delay |-> OrDefault(options, "delay", 2),
   format |-> OrDefault(options, "format", "png"),
   quality |-> OrDefault(options, "quality", 90)]

\* a row of screenshot_jobs as the insert leaves it (columns not given take their default)
NewScreenshotJob(user, sitemapJobId, url, options, at) ==
  [user_id |-> user, sitemap_job_id |-> sitemapJobId, url |-> url, status |-> "pending",
   options |-> options, screenshot_url |-> NULL_TEXT, error_message |-> NULL_TEXT,
   created_at |-> at, started_at |-> NULL_TIME, completed_at |-> NULL_TIME]

\* urls.map((url) => ({...}))
screenshotJobs(user, sitemapJobId, urls, options, at) ==
  [i \in 1..Len(urls) |->
     NewScreenshotJob(user, sitemapJobId, urls[i], JobOptions(options), at)]

NoGenerateResponse == [code |-> 0, success |-> FALSE, jobIds |-> <<>>, totalJobs |-> 0]

GenerateError(code) == [NoGenerateResponse EXCEPT !.code = code]

GenerateIdle ==
  [pc |-> "idle", method |-> "POST", token |-> "valid", user |-> "u1", isArray |-> TRUE,
   urls |-> <<>>, sitemapJobId |-> NULL_ID, options |-> OptionsOf({}),
   response |-> NoGenerateResponse]

GenerateRespond(table, response) ==
  /\ generate' = [generate EXCEPT !.pc = "responded", !.response = response]
  /\ screenshot_jobs' = table
  /\ UNCHANGED <<v1, storeVars, discover, fn, watch, ticks>>

\* supabase.from('screenshot_jobs').insert(screenshotJobs).select(): all rows or none;
\* a sitemap_job_id that names no row breaks the foreign key, and the error is thrown
GenerateInsert(rows) ==
  IF generate.sitemapJobId = NULL_ID \/ generate.sitemapJobId \in 1..Len(sitemap_jobs)
  THEN GenerateRespond(screenshot_jobs \o rows,
         [code |-> 200, success |-> TRUE,
          jobIds |-> [i \in 1..Len(rows) |-> Len(screenshot_jobs) + i],
          totalJobs |-> Len(generate.urls)])
  ELSE GenerateRespond(screenshot_jobs, GenerateError(500))

\* a ceiling that 100 URLs reach
OverCeiling_Inclusive(urls) == Len(urls) >= MAX_URLS_PER_BATCH

\* if (urls.length > 100)
OverCeiling(urls) == Len(urls) > MAX_URLS_PER_BATCH

GenerateScreenshots ==
  /\ generate.pc = "request"
  /\ IF generate.method # "POST" THEN GenerateRespond(screenshot_jobs, GenerateError(405))
     ELSE IF generate.token # "valid"
       THEN GenerateRespond(screenshot_jobs, GenerateError(401))
     ELSE IF ~generate.isArray \/ Len(generate.urls) = 0
       THEN GenerateRespond(screenshot_jobs, GenerateError(400))
     ELSE IF OverCeiling(generate.urls)
       THEN GenerateRespond(screenshot_jobs, GenerateError(400))
     ELSE GenerateInsert(screenshotJobs(generate.user, generate.sitemapJobId,
                                        generate.urls, generate.options,
                                        Len(screenshot_jobs) + 1))

(***************************************************************************)
(* Screenshot worker: processJob's writes to screenshot_jobs               *)
(***************************************************************************)
UpdateScreenshotJob(table, id, patch) ==
  IF id \in 1..Len(table) /\ Merge(table[id], patch).status \in JobStatus
  THEN [table EXCEPT ![id] = Merge(@, patch)]
  ELSE table

SCREENSHOT_ERROR == <<"Screenshot failed">>

\* a job pollForJobs selected as pending: "Update status to processing"
processJobStart(id) ==
  /\ id \in 1..Len(screenshot_jobs)
  /\ screenshot_jobs[id].status = "pending"
  /\ screenshot_jobs' = UpdateScreenshotJob(screenshot_jobs, id,
                          [status |-> "processing", started_at |-> NOW])
  /\ UNCHANGED <<v1, storeVars, discover, generate, fn, watch, ticks>>

\* takeScreenshot has returned: the update to completed, or the catch's update to failed
processJobEnd(id, success) ==
  /\ id \in 1..Len(screenshot_jobs)
  /\ screenshot_jobs[id].status = "processing"
  /\ screenshot_jobs' =
       IF success
       THEN UpdateScreenshotJob(screenshot_jobs, id,
              [status |-> "completed", screenshot_url |-> <<"url">>, completed_at |-> NOW])
       ELSE UpdateScreenshotJob(screenshot_jobs, id,
              [status |-> "failed", error_message |-> SCREENSHOT_ERROR,
               completed_at |-> NOW])
  /\ UNCHANGED <<v1, storeVars, discover, generate, fn, watch, ticks>>

\* The worker's interval: setInterval(pollForJobs, POLL_INTERVAL) starts a call at every
\* tick, whether or not the call of the tick before has returned.
MaxTicks == 2         \* calls of pollForJobs in progress at once

BATCH_LIMIT == 5      \* .limit(5)

NoTick == [pc |-> "idle", batch |-> <<>>, at |-> 0]

\* taken: per job id, the calls of takeScreenshot made for it
NoTicks == [calls |-> [w \in 1..MaxTicks |-> NoTick], taken |-> <<>>]

Taken(id) == IF id \in DOMAIN ticks.taken THEN ticks.taken[id] ELSE 0

\* .eq('status', 'pending').order('created_at', { ascending: true }).limit(5): the ids
RECURSIVE PendingFrom(_, _)
PendingFrom(table, id) ==
  IF id > Len(table) THEN <<>>
  ELSE IF table[id].status = "pending" THEN <<id>> \o PendingFrom(table, id + 1)
  ELSE PendingFrom(table, id + 1)

SelectPendingScreenshots(table) == Slice(PendingFrom(table, 1), BATCH_LIMIT)

\* a tick of the interval: the select of pollForJobs; with no pending job the call returns
ScreenshotPoll(w) ==
  /\ ticks.calls[w].pc = "idle"
  /\ SelectPendingScreenshots(screenshot_jobs) # <<>>
  /\ ticks' = [ticks EXCEPT !.calls[w] =
                 [pc |-> "processJob", batch |-> SelectPendingScreenshots(screenshot_jobs),
                  at |-> 1]]
  /\ UNCHANGED <<v1, storeVars, discover, screenshot_jobs, generate, fn, watch>>

\* processJob(job) for the next job of the batch: "Update status to processing", and the
\* call of takeScreenshot
ScreenshotJobStart(w) ==
  /\ ticks.calls[w].pc = "processJob"
  /\ LET id == ticks.calls[w].batch[ticks.calls[w].at]
     IN /\ screenshot_jobs' = UpdateScreenshotJob(screenshot_jobs, id,
                                 [status |-> "processing", started_at |-> NOW])
        /\ ticks' = [ticks EXCEPT !.calls[w].pc = "takeScreenshot",
                                  !.taken = (id :> Taken(id) + 1) @@ @]
  /\ UNCHANGED <<v1, storeVars, discover, generate, fn, watch>>

\* takeScreenshot has returned: the update to completed, or the catch's update to failed;
\* then the next job of the batch, or the return of pollForJobs
ScreenshotJobEnd(w, success) ==
  /\ ticks.calls[w].pc = "takeScreenshot"
  /\ LET id == ticks.calls[w].batch[ticks.calls[w].at]
     IN screenshot_jobs' =
          IF success
          THEN UpdateScreenshotJob(screenshot_jobs, id,
                 [status |-> "completed", screenshot_url |-> <<"url">>, completed_at |-> NOW])
          ELSE UpdateScreenshotJob(screenshot_jobs, id,
                 [status |-> "failed", error_message |-> SCREENSHOT_ERROR,
                  completed_at |-> NOW])
  /\ ticks' = [ticks EXCEPT !.calls[w] =
                 IF @.at < Len(@.batch) THEN [@ EXCEPT !.pc = "processJob", !.at = @ + 1]
                 ELSE NoTick]
  /\ UNCHANGED <<v1, storeVars, discover, generate, fn, watch>>

(***************************************************************************)
(* The generator page (src/pages/GeneratorPage.tsx)                        *)
(***************************************************************************)
\* the part of s before the first occurrence of character c: s.split(c)[0]
SplitHead(s, c) == IF IndexOf(s, c) = 0 THEN s ELSE SubSeq(s, 1, IndexOf(s, c) - 1)

\* s.replace(/^prefix/, '')
StripPrefix(s, prefix) ==
  IF StartsWith(s, prefix) THEN SubSeq(s, Len(prefix) + 1, Len(s)) ELSE s

WWW_DOT == <<"w","w","w",".">>

\* cleaned.replace(/^https?:\/\//, '')
StripProtocol(s) ==
  IF StartsWith(s, HTTPS_SCHEME) THEN StripPrefix(s, HTTPS_SCHEME)
  ELSE StripPrefix(s, HTTP_SCHEME)

\* "Normalize domain - extract clean domain from any URL format"
normalizeDomain(input) ==
  SplitHead(
    SplitHead(SplitHead(SplitHead(StripPrefix(StripProtocol(Trim(input)), WWW_DOT), "/"),
                        "?"),
              "#"),
    ":")

\* no function under application
NoCall == [op |-> "none", pc |-> "idle", input |-> <<>>, output |-> <<>>]

Call(op, input) == [op |-> op, pc |-> "call", input |-> input, output |-> <<>>]

\* the function named by fn.op returns
Return(op, output) ==
  /\ fn.op = op
  /\ fn.pc = "call"
  /\ fn' = [fn EXCEPT !.pc = "returned", !.output = output]
  /\ UNCHANGED <<v1, storeVars, discover, screenshot_jobs, generate, watch, ticks>>

NormalizeDomain == Return("normalizeDomain", normalizeDomain(fn.input))

\* expandSitemapIndex(sitemapUrls) with the web being fn.input.site
ExpandSitemapIndex ==
  Return("expandSitemapIndex",
         expandSitemapIndex(fn.input.site, NormalizeBaseUrl(<<"e">>),
                            fn.input.sitemapUrls).urls)

\* the same call, seen by the fetches it makes
ExpandSitemapIndexFetches ==
  Return("expandSitemapIndex: fetches",
         expandSitemapIndex(fn.input.site, NormalizeBaseUrl(<<"e">>),
                            fn.input.sitemapUrls).fetched)

\* parseCSVFile on the records csv-parse gives for the export
ParseCSVFile == Return("parseCSVFile", parseCSVFile(fn.input))

\* isSitemapIndex(urls)
IsSitemapIndex == Return("isSitemapIndex", isSitemapIndex(fn.input))

\* Poll watchers: setInterval(callback, every) with setTimeout(clearInterval, giveUp).
\* Time is counted in callbacks of the interval.
MaxInflight == 2      \* polls of one watcher awaiting their response

CRAWL_POLL_EVERY == 3000
CRAWL_GIVE_UP == 300000
SCREENSHOT_POLL_EVERY == 2000
SCREENSHOT_GIVE_UP == 600000

\* channel: the Realtime subscription to the crawl job's updates; pushed: the status of
\* the last update it delivered; applied: how often the page has applied a terminal
\* outcome (setCurrentStep('selection') with the URLs, or the error)
NoWatch ==
  [kind |-> "none", jobIds |-> <<>>, interval |-> "none", timer |-> "none",
   ticks |-> 0, inflight |-> 0, observed |-> "none",
   channel |-> "none", pushed |-> "none", applied |-> 0]

PollEvery(kind) == IF kind = "crawl" THEN CRAWL_POLL_EVERY ELSE SCREENSHOT_POLL_EVERY

GiveUpAfter(kind) == IF kind = "crawl" THEN CRAWL_GIVE_UP ELSE SCREENSHOT_GIVE_UP

\* the time of the latest callback of the interval
Elapsed(w) == w.ticks * PollEvery(w.kind)

StartWatch(kind, jobIds) ==
  /\ watch.interval = "none"
  /\ watch' = [watch EXCEPT !.kind = kind, !.jobIds = jobIds, !.interval = "set",
                            !.timer = "set",
                            !.channel = IF kind = "crawl" THEN "subscribed" ELSE @]
  /\ UNCHANGED <<v1, storeVars, discover, screenshot_jobs, generate, fn, ticks>>

\* pollForJobStatus(jobId, channel), called with the id start-crawl answered and the
\* channel handleDiscoverSitemap has just subscribed
pollForJobStatus(jobId) ==
  /\ watch.kind = "crawl"
  /\ jobId \in 1..Len(crawl_jobs)
  /\ StartWatch("crawl", <<jobId>>)

\* pollForScreenshotJobs(jobIds), called with the ids generate answered
pollForScreenshotJobs(jobIds) ==
  /\ watch.kind = "screenshots"
  /\ generate.pc = "responded"
  /\ generate.response.success
  /\ jobIds = generate.response.jobIds
  /\ StartWatch("screenshots", jobIds)

\* a callback of the interval starts its query; it fires no later than the give-up timer
PollTick ==
  /\ watch.interval = "set"
  /\ Elapsed(watch) + PollEvery(watch.kind) <= GiveUpAfter(watch.kind)
  /\ watch' = [watch EXCEPT !.ticks = @ + 1,
                            !.inflight = IF @ < MaxInflight THEN @ + 1 ELSE @]
  /\ UNCHANGED <<v1, storeVars, discover, screenshot_jobs, generate, fn, ticks>>

Observed(w, status, stop) ==
  [w EXCEPT !.inflight = @ - 1,
            !.observed = status,
            !.interval = IF stop THEN "cleared" ELSE @]

Observe(status, stop) ==
  /\ watch.inflight > 0
  /\ watch' = Observed(watch, status, stop)
  /\ UNCHANGED <<v1, storeVars, discover, screenshot_jobs, generate, fn, ticks>>

\* the branches on job.status that both the poll callback and the Realtime callback
\* have: a completed job (discovered_urls is never null) or a failed job is applied and
\* the channel unsubscribed; otherwise at most the message changes
Applied(w, job) ==
  IF job.status \in {"completed", "failed"}
  THEN [w EXCEPT !.applied = @ + 1,
                 !.channel = IF @ = "subscribed" THEN "unsubscribed" ELSE @]
  ELSE w

\* what a callback of the crawl watcher does with the row it gets
CrawlPolled_KeepsOnFailed(job) ==
  /\ watch.inflight > 0
  /\ watch' = Applied(Observed(watch, job.status, job.status = "completed"), job)
  /\ UNCHANGED <<v1, storeVars, discover, screenshot_jobs, generate, fn, ticks>>

CrawlPolled(job) ==
  /\ watch.inflight > 0
  /\ watch' = Applied(Observed(watch, job.status, job.status \in {"completed", "failed"}), job)
  /\ UNCHANGED <<v1, storeVars, discover, screenshot_jobs, generate, fn, ticks>>

\* the callback of .on('postgres_changes', {event: 'UPDATE', ...}): an update of the row
\* that the subscribed channel delivers (payload.new = job); an update may also never
\* be delivered
RealtimeUpdate(job) ==
  /\ watch.kind = "crawl"
  /\ watch.channel = "subscribed"
  /\ job.status # watch.pushed /\ job.status # "pending"
  /\ watch' = [Applied(watch, job) EXCEPT !.pushed = job.status]
  /\ UNCHANGED <<v1, storeVars, discover, screenshot_jobs, generate, fn, ticks>>

\* the query of a callback comes back: an error, or the row as it is now
CrawlPollReturn(error) ==
  /\ watch.kind = "crawl"
  /\ watch.jobIds # <<>>
  /\ IF error THEN Observe(watch.observed, FALSE)
     ELSE CrawlPolled(crawl_jobs[watch.jobIds[1]])

\* jobs.filter(j => j.status === 'completed').length + the same for 'failed'
Done(jobs) == Cardinality({i \in 1..Len(jobs) : Terminal(jobs[i].status)})

\* the rows whose id is in jobIds: id=in.(...)
Watched(jobIds) ==
  [i \in 1..Len(jobIds) |-> screenshot_jobs[jobIds[i]]]

\* if (done === jobIds.length) clearInterval(pollInterval)
ScreenshotsPolled(jobs, total) ==
  Observe(IF Done(jobs) = total THEN "all done" ELSE "progress", Done(jobs) = total)

\* no session or a response that is not ok, or the rows as they are now
ScreenshotPollReturn(error) ==
  /\ watch.kind = "screenshots"
  /\ watch.jobIds # <<>>
  /\ IF error THEN Observe(watch.observed, FALSE)
     ELSE ScreenshotsPolled(Watched(watch.jobIds), Len(watch.jobIds))

\* setTimeout(() => clearInterval(pollInterval), ...) fires, and with it the timer
\* of handleDiscoverSitemap set for the same time, which unsubscribes the channel
GiveUp ==
  /\ watch.timer = "set"
  /\ watch.interval = "cleared"
     \/ Elapsed(watch) + PollEvery(watch.kind) >= GiveUpAfter(watch.kind)
  /\ watch' = [watch EXCEPT !.timer = "fired", !.interval = "cleared",
                            !.channel = IF @ = "subscribed" THEN "unsubscribed" ELSE @]
  /\ UNCHANGED <<v1, storeVars, discover, screenshot_jobs, generate, fn, ticks>>

(***************************************************************************)
(* POST /api/v1/sitemap                                                    *)
(***************************************************************************)
Methods == {"POST", "GET", "OPTIONS"}

\* what the X-API-Key header resolves to
ApiKeys == {"missing", "unknown", "inactive", "active"}

NoResponse == [code |-> 0, success |-> FALSE, urls |-> <<>>, count |-> 0,
               source |-> NULL_SOURCE]

ErrorResponse(code) == [NoResponse EXCEPT !.code = code]

V1Idle == [pc |-> "idle", method |-> "POST", apiKey |-> "active", domain |-> <<>>,
           site |-> CHOOSE s \in Sites : TRUE, response |-> NoResponse, fetched |-> <<>>]

V1Respond(response, fetched) ==
  /\ v1' = [v1 EXCEPT !.pc = "responded", !.response = response, !.fetched = fetched]
  /\ UNCHANGED <<sideVars, storeVars>>

\* if (foundUrls.length > 0) return res.json({success: true, ...}); return res.json(...)
V1Found(found) ==
  IF Len(found.foundUrls) > 0
  THEN V1Respond([code |-> 200, success |-> TRUE, urls |-> found.foundUrls,
                  count |-> Len(found.foundUrls), source |-> found.source],
                 found.fetched)
  ELSE V1Respond([code |-> 200, success |-> FALSE, urls |-> <<>>,
                  count |-> 0, source |-> NULL_SOURCE],
                 found.fetched)

\* } catch (error) { return res.status(500).json(...) } around the strategy chain
V1Caught(baseUrl, found) ==
  IF Uncaught(v1.site, baseUrl, found.fetched)
  THEN V1Respond(ErrorResponse(500), found.fetched)
  ELSE V1Found(found)

V1Resolve(baseUrl) == V1Caught(baseUrl, ResolveSitemap(v1.site, baseUrl))

V1Sitemap ==
  /\ v1.pc = "request"
  /\ IF v1.method = "OPTIONS" THEN V1Respond(ErrorResponse(200), <<>>)
     ELSE IF v1.method # "POST" THEN V1Respond(ErrorResponse(405), <<>>)
     ELSE IF v1.apiKey \in {"missing", "unknown"} THEN V1Respond(ErrorResponse(401), <<>>)
     ELSE IF v1.apiKey = "inactive" THEN V1Respond(ErrorResponse(403), <<>>)
     ELSE IF v1.domain = <<>> THEN V1Respond(ErrorResponse(400), <<>>)
     ELSE V1Resolve(NormalizeBaseUrl(v1.domain))

\* well-formed requests against every site, and the malformed ones against one site
V1Requests ==
  {[V1Idle EXCEPT !.pc = "request", !.domain = d, !.site = s] : d \in Domains, s \in Sites}
  \cup {[V1Idle EXCEPT !.pc = "request", !.method = m, !.apiKey = k, !.domain = d] :
          m \in Methods, k \in ApiKeys, d \in Domains \cup {<<>>}}

StoreEmpty ==
  /\ sitemap_jobs = <<>>
  /\ crawl_jobs = <<>>
  /\ discovers = {}
  /\ starts = {}
  /\ polls = [w \in 1..MaxPolls |-> IdlePoll]
  /\ procs = [w \in 1..MaxPolls |-> NoProc]
  /\ history = <<>>

\* no request at the other handlers, no function under application, no watcher
SideIdle ==
  /\ discover = DiscoverIdle
  /\ screenshot_jobs = <<>>
  /\ generate = GenerateIdle
  /\ fn = NoCall
  /\ watch = NoWatch /\ ticks = NoTicks

InitResolver == v1 \in V1Requests /\ StoreEmpty /\ SideIdle

NextResolver == V1Sitemap

ResolverSpec == InitResolver /\ [][NextResolver]_vars

(***************************************************************************)
(* The job store with its handlers and the crawl worker                    *)
(***************************************************************************)
Init == v1 = V1Idle /\ StoreEmpty /\ SideIdle

Handlers ==
  \/ \E user \in Users, domain \in Domains : DiscoverInsert(user, domain)
  \/ \E id \in discovers, found \in DiscoverOutcomes : DiscoverFinish(id, found)
  \/ \E user \in Users, sitemapJobId \in 0..MaxSitemapJobs, domain \in Domains :
       /\ Len(crawl_jobs) < MaxCrawlJobs
       /\ StartCrawlInsert(user, sitemapJobId, domain)
  \/ \E sitemapJobId \in starts : StartCrawlUpdate(sitemapJobId)

\* the steps of the call of pollForJobs in slot w that follow its select: each awaited
\* write comes back and each timer that is set fires
Continue(w) ==
  \/ \E started \in {"mkdir", "error", "spawned"} : MarkProcessing(w, started)
  \/ CrawlTimeout(w)
  \/ GraceTimeout(w)
  \/ \E export \in Exports : ParseAndComplete(w, export)
  \/ \E removed \in BOOLEAN : FinishCompleted(w, removed)
  \/ WriteFailed(w)
  \/ FinishFailed(w)

\* the call of pollForJobs in slot w and the subprocess it spawns
WorkerStep(w) ==
  \/ pollForJobs(w)
  \/ \E code \in ExitCodes, stderr \in Stderrs : ProcClose(w, code, stderr)
  \/ Continue(w)

Worker == \E w \in 1..MaxPolls : WorkerStep(w)

Next == Handlers \/ Worker

Spec == Init /\ [][Next]_vars

(***************************************************************************)
(* The crawl worker on a queue of crawl jobs that carry no sitemap job     *)
(***************************************************************************)
MaxQueued == 2        \* crawl jobs put on the queue

QueueUser == "u1"

Enqueue(max) ==
  /\ Len(crawl_jobs) < max
  /\ \E domain \in Domains : StartCrawlInsert(QueueUser, NULL_ID, domain)

NextWorker == Enqueue(MaxQueued) \/ Worker

WorkerSpec == Init /\ [][NextWorker]_vars

(***************************************************************************)
(* The crawl worker on its timers: the subprocess may never exit, the      *)
(* worker's own steps and its timers do happen                             *)
(***************************************************************************)
MaxTimed == 1         \* crawl jobs put on the queue

NextTimeout == Enqueue(MaxTimed) \/ Worker

TimeoutSpec ==
  Init /\ [][NextTimeout]_vars /\ \A w \in 1..MaxPolls : WF_vars(Continue(w))

(***************************************************************************)
(* The crawl worker on its interval: every tick of setInterval(pollForJobs)*)
(* happens, the worker's own steps and its timers do happen, the           *)
(* subprocess may never exit                                               *)
(***************************************************************************)
MaxLive == 2          \* crawl jobs put on the queue

\* what the crawl left: nothing, or an export of one page
LiveExports ==
  {[kind |-> "missing", rows |-> <<>>],
   [kind |-> "table",
    rows |-> <<CsvRow(("Address" :> PageP) @@ ("Status Code" :> STATUS_200))>>]}

ContinueLive(w) ==
  \/ \E started \in {"mkdir", "error", "spawned"} : MarkProcessing(w, started)
  \/ CrawlTimeout(w)
  \/ GraceTimeout(w)
  \/ \E export \in LiveExports : ParseAndComplete(w, export)
  \/ FinishCompleted(w, TRUE)
  \/ WriteFailed(w)
  \/ FinishFailed(w)

WorkerLive ==
  \E w \in 1..MaxPolls :
    \/ pollForJobs(w)
    \/ \E code \in ExitCodes, stderr \in Stderrs : ProcClose(w, code, stderr)
    \/ ContinueLive(w)

NextLive == Enqueue(MaxLive) \/ WorkerLive

LiveSpec ==
  /\ Init /\ [][NextLive]_vars
  /\ \A w \in 1..MaxPolls : WF_vars(pollForJobs(w)) /\ WF_vars(ContinueLive(w))

(***************************************************************************)
(* The handlers of the resolver on sites whose candidates fail             *)
(***************************************************************************)
V1Failing ==
  {[V1Idle EXCEPT !.pc = "request", !.domain = d, !.site = s] :
     d \in Domains, s \in FailingSites}

DiscoverFailing ==
  {[DiscoverIdle EXCEPT !.pc = "request", !.domain = d, !.site = s] :
     d \in Domains, s \in FailingSites}
  \cup {[DiscoverIdle EXCEPT !.pc = "request", !.method = m, !.token = t, !.domain = d] :
          m \in {"POST", "GET"}, t \in Tokens, d \in Domains \cup {<<>>}}

InitFailure ==
  /\ StoreEmpty
  /\ screenshot_jobs = <<>> /\ generate = GenerateIdle /\ fn = NoCall /\ watch = NoWatch /\ ticks = NoTicks
  /\ \/ v1 \in V1Failing /\ discover = DiscoverIdle
     \/ v1 = V1Idle /\ discover \in DiscoverFailing

NextFailure == V1Sitemap \/ DiscoverSitemap

FailureSpec == InitFailure /\ [][NextFailure]_vars

(***************************************************************************)
(* The generate handler on batches around the ceiling                      *)
(***************************************************************************)
BatchSizes == {0, 1, 2, MAX_URLS_PER_BATCH, MAX_URLS_PER_BATCH + 1}

UrlList(n) == [i \in 1..n |-> IF i % 2 = 1 THEN PageP ELSE PageQ]

\* lists of every size of BatchSizes, and one that names a page twice
UrlLists == {UrlList(n) : n \in BatchSizes} \cup {<<PageP, PageP>>}

GenerateRequests ==
  {[GenerateIdle EXCEPT !.pc = "request", !.user = u, !.urls = urls,
                        !.sitemapJobId = id, !.options = o] :
     u \in Users, urls \in UrlLists, id \in {NULL_ID, 1, 2}, o \in CallerOptions}
  \cup {[GenerateIdle EXCEPT !.pc = "request", !.method = m, !.token = t,
                             !.isArray = a, !.urls = urls] :
          m \in {"POST", "GET"}, t \in Tokens, a \in BOOLEAN,
          urls \in {<<>>, UrlList(1)}}

\* a sitemap job that discover completed from robots.txt
CompletedSitemapJob ==
  [NewSitemapJob("u1", NormalizeBaseUrl(<<"e">>), "completed", 1)
     EXCEPT !.urls = <<PageP, PageQ>>, !.source = ROBOTS_TXT, !.completed_at = NOW]

\* a screenshot job of an earlier batch
EarlierJob == NewScreenshotJob("u2", NULL_ID, PageQ, JobOptions(OptionsOf({})), 1)

InitGenerate ==
  /\ v1 = V1Idle
  /\ sitemap_jobs = <<CompletedSitemapJob>>
  /\ crawl_jobs = <<>> /\ discovers = {} /\ starts = {} /\ history = <<>>
  /\ polls = [w \in 1..MaxPolls |-> IdlePoll]
  /\ procs = [w \in 1..MaxPolls |-> NoProc]
  /\ discover = DiscoverIdle /\ fn = NoCall /\ watch = NoWatch /\ ticks = NoTicks
  /\ screenshot_jobs \in {<<>>, <<EarlierJob>>}
  /\ generate \in GenerateRequests

NextGenerate == GenerateScreenshots

GenerateSpec == InitGenerate /\ [][NextGenerate]_vars

\* a request that passed the method and auth checks is answered in this step
Dispatched ==
  /\ generate.pc = "request" /\ generate'.pc = "responded"
  /\ generate.method = "POST" /\ generate.token = "valid"

\* the sitemap job the request names exists, or it names none
LinkOk == generate.sitemapJobId = NULL_ID \/ generate.sitemapJobId \in 1..Len(sitemap_jobs)

\* C12: the generate handler called with an empty URL list (or none) or with more than
\* 100 URLs answers the validation error 400 and leaves table screenshot_jobs as it
\* was; called with exactly 100 URLs it adds exactly 100 rows.
C12_BatchCeiling ==
  [][Dispatched =>
       IF ~generate.isArray \/ Len(generate.urls) = 0 \/ Len(generate.urls) > 100
       THEN /\ generate'.response.code = 400
            /\ generate'.response.jobIds = <<>>
            /\ screenshot_jobs' = screenshot_jobs
       ELSE Len(generate.urls) = 100 /\ LinkOk =>
              /\ generate'.response.code = 200
              /\ Len(screenshot_jobs') = Len(screenshot_jobs) + 100
              /\ SubSeq(screenshot_jobs', 1, Len(screenshot_jobs)) = screenshot_jobs]_vars

\* 101 URLs were refused with 400 and the table still holds the one earlier job
C12_Witness ==
  /\ generate.pc = "responded"
  /\ generate.method = "POST" /\ generate.token = "valid" /\ generate.isArray
  /\ Len(generate.urls) = 101
  /\ generate.response.code = 400
  /\ screenshot_jobs = <<EarlierJob>>

\* C13: a dispatch of n URLs (1 <= n <= 100) by user P that passes validation adds
\* exactly n rows to screenshot_jobs and answers their n ids: row i carries URL i, status
\* pending, owner P and the sitemap job id of the request, all rows carry the same
\* options, and these agree with the caller's options on every field the caller gave.
C13_OneJobPerUrl ==
  [][Dispatched /\ generate.isArray /\ LinkOk
       /\ Len(generate.urls) >= 1 /\ Len(generate.urls) <= 100 =>
       LET n == Len(generate.urls)
           ids == generate'.response.jobIds
       IN /\ generate'.response.code = 200
          /\ Len(ids) = n
          /\ Len(screenshot_jobs') = Len(screenshot_jobs) + n
          /\ SubSeq(screenshot_jobs', 1, Len(screenshot_jobs)) = screenshot_jobs
          /\ \A i \in 1..n :
               /\ ids[i] = Len(screenshot_jobs) + i
               /\ screenshot_jobs'[ids[i]].url = generate.urls[i]
               /\ screenshot_jobs'[ids[i]].status = "pending"
               /\ screenshot_jobs'[ids[i]].user_id = generate.user
               /\ screenshot_jobs'[ids[i]].sitemap_job_id = generate.sitemapJobId
               /\ screenshot_jobs'[ids[i]].options = screenshot_jobs'[ids[1]].options
               /\ \A f \in DOMAIN generate.options :
                    screenshot_jobs'[ids[i]].options[f] = generate.options[f]]_vars

\* user u2 dispatched 100 URLs with every option given and sitemap job 1: 100 ids came
\* back and the last row carries the caller's viewport
C13_Witness ==
  /\ generate.pc = "responded"
  /\ generate.user = "u2" /\ generate.sitemapJobId = 1
  /\ DOMAIN generate.options = OptionFields
  /\ Len(generate.urls) = 100
  /\ Len(generate.response.jobIds) = 100
  /\ screenshot_jobs[generate.response.jobIds[100]].options.viewport
       = SuppliedOptions.viewport
  /\ screenshot_jobs[generate.response.jobIds[100]].sitemap_job_id = 1

(***************************************************************************)
(* normalizeDomain on the casual spellings of one host                     *)
(***************************************************************************)
BaseHost == <<"e",".","c">>

Schemes ==
  {<<>>, HTTP_SCHEME, HTTPS_SCHEME, <<"H","T","T","P",":","/","/">>,
   <<"H","t","t","p","s",":","/","/">>}

Wwws == {<<>>, WWW_DOT, <<"W","W","W",".">>}

Hosts == {BaseHost, <<"E",".","c">>}

Ports == {<<>>, <<":","8">>}

Paths == {<<>>, <<"/","f">>}

Queries == {<<>>, <<"?","x">>}

Fragments == {<<>>, <<"#","h">>}

\* what a user types into the domain field for the host
Spellings ==
  {scheme \o www \o host \o port \o path \o query \o fragment :
     scheme \in Schemes, www \in Wwws, host \in Hosts, port \in Ports,
     path \in Paths, query \in Queries, fragment \in Fragments}

InitNormalize ==
  /\ v1 = V1Idle /\ StoreEmpty
  /\ discover = DiscoverIdle /\ screenshot_jobs = <<>> /\ generate = GenerateIdle
  /\ watch = NoWatch /\ ticks = NoTicks
  /\ fn \in {Call("normalizeDomain", input) : input \in Spellings}

NextNormalize == NormalizeDomain

NormalizeSpec == InitNormalize /\ [][NextNormalize]_vars

\* C14: normalizeDomain maps every casual spelling of a host (scheme in any letter
\* case, a leading www., port, path, query, fragment) to the same base host, in lower
\* case as in the spec's example.com.
C14_OneBaseHost ==
  fn.op = "normalizeDomain" /\ fn.pc = "returned" => fn.output = BaseHost

(***************************************************************************)
(* The handlers of the resolver on the casual spellings of one host        *)
(***************************************************************************)
\* a site that answers nothing, and one whose /sitemap.xml lists a page
DomainSites ==
  {DeadSite, [DeadSite EXCEPT !.paths = FailingPaths(FetchOk(LeafBody), FetchFailed,
                                                    FetchFailed, 2)]}

InitDomain ==
  /\ StoreEmpty
  /\ screenshot_jobs = <<>> /\ generate = GenerateIdle /\ fn = NoCall /\ watch = NoWatch /\ ticks = NoTicks
  /\ \/ /\ v1 \in {[V1Idle EXCEPT !.pc = "request", !.domain = d, !.site = s] :
                      d \in Spellings, s \in DomainSites}
        /\ discover = DiscoverIdle
     \/ /\ v1 = V1Idle
        /\ discover \in {[DiscoverIdle EXCEPT !.pc = "request", !.domain = d, !.site = s] :
                            d \in Spellings, s \in DomainSites}

NextDomain == V1Sitemap \/ DiscoverSitemap

DomainSpec == InitDomain /\ [][NextDomain]_vars

(***************************************************************************)
(* expandSitemapIndex on lists of sitemaps that repeat pages               *)
(***************************************************************************)
MaxCandidates == 3    \* sitemap URLs handed to expandSitemapIndex

SubB == <<"h","t","t","p","s",":","/","/","e","/","b",".","x","m","l">>
SubN == <<"h","t","t","p","s",":","/","/","e","/","n",".","x","m","l">>

Loc(url) == Element(<<"l","o","c">>, url)

\* what a sub-sitemap answers: nothing, or a leaf that may name a page twice
LeafResponses ==
  {FetchFailed, FetchTimeout, FetchOk(<<Loc(PageP)>>), FetchOk(<<Loc(PageP), Loc(PageP)>>),
   FetchOk(<<Loc(PageP), Loc(PageQ)>>), FetchOk(<<Loc(PageQ), Loc(PageP)>>)}

\* what the sitemap at SubN answers: nothing, or an index of the two sub-sitemaps
IndexResponses ==
  {FetchFailed, FetchOk(<<Loc(SubA), Loc(SubB)>>), FetchOk(<<Loc(SubA), Loc(SubA)>>)}

ExpanderSites ==
  { [DeadSite EXCEPT !.subs = (SubA :> a) @@ (SubB :> b) @@ (SubN :> n)] :
      a \in LeafResponses, b \in LeafResponses, n \in IndexResponses }

ExpanderInputs ==
  {[site |-> site, sitemapUrls |-> sitemapUrls] :
     site \in ExpanderSites, sitemapUrls \in SeqsUpTo({SubA, SubB, SubN}, MaxCandidates)}

InitExpander ==
  /\ v1 = V1Idle /\ StoreEmpty
  /\ discover = DiscoverIdle /\ screenshot_jobs = <<>> /\ generate = GenerateIdle
  /\ watch = NoWatch /\ ticks = NoTicks
  /\ fn \in {Call("expandSitemapIndex", input) : input \in ExpanderInputs}

NextExpander == ExpandSitemapIndex

ExpanderSpec == InitExpander /\ [][NextExpander]_vars

\* C17: whatever the candidate sitemap URLs and whatever each fetch answers, the list
\* expandSitemapIndex returns names no URL twice, however many sub-sitemaps (nested ones
\* included) list the same page.
C17_ExpanderDedups ==
  fn.op = "expandSitemapIndex" /\ fn.pc = "returned" => NoDuplicates(fn.output)

\* the sub-sitemap at SubA names page P twice, the one at SubB names Q and P, the index
\* at SubN names both again: the list returned is P, Q
C17_Witness ==
  /\ fn.op = "expandSitemapIndex" /\ fn.pc = "returned"
  /\ fn.input.sitemapUrls = <<SubA, SubB, SubN>>
  /\ fn.input.site.subs[SubA] = FetchOk(<<Loc(PageP), Loc(PageP)>>)
  /\ fn.input.site.subs[SubB] = FetchOk(<<Loc(PageQ), Loc(PageP)>>)
  /\ fn.input.site.subs[SubN] = FetchOk(<<Loc(SubA), Loc(SubB)>>)
  /\ fn.output = <<PageP, PageQ>>

(***************************************************************************)
(* isSitemapIndex on lists of sitemap and page URLs                        *)
(***************************************************************************)
MaxEntries == 10      \* entries of a list handed to isSitemapIndex

InitIndex ==
  /\ v1 = V1Idle /\ StoreEmpty
  /\ discover = DiscoverIdle /\ screenshot_jobs = <<>> /\ generate = GenerateIdle
  /\ watch = NoWatch /\ ticks = NoTicks
  /\ fn \in {Call("isSitemapIndex", urls) : urls \in SeqsUpTo({SubA, PageP}, MaxEntries)}

NextIndex == IsSitemapIndex

IndexSpec == InitIndex /\ [][NextIndex]_vars

EndsInDotXml(url) ==
  Len(url) >= 4 /\ SubSeq(url, Len(url) - 3, Len(url)) = <<".","x","m","l">>

\* C18: isSitemapIndex(urls) is true exactly when the entries that end in .xml are
\* strictly more than half of the list: 6 of 10 is an index, 5 of 10 is not, and the
\* empty list is not.
C18_StrictMajority ==
  fn.op = "isSitemapIndex" /\ fn.pc = "returned" =>
    (fn.output <=> 2 * Len(SelectSeq(fn.input, EndsInDotXml)) > Len(fn.input))

\* a list of ten entries, six of them ending in .xml, was found to be an index
C18_Witness ==
  /\ fn.op = "isSitemapIndex" /\ fn.pc = "returned"
  /\ Len(fn.input) = 10
  /\ Len(SelectSeq(fn.input, EndsInDotXml)) = 6
  /\ fn.output = TRUE

(***************************************************************************)
(* expandSitemapIndex on lists and indexes longer than its bounds          *)
(***************************************************************************)
MaxListed == 17       \* sitemap URLs handed to expandSitemapIndex
MaxIndexed == 7       \* entries of an index that a sub-sitemap answers

\* n entries: url, but other at every third place if mixed
Listing(n, url, other, mixed) ==
  [i \in 1..n |-> IF mixed /\ i % 3 = 0 THEN other ELSE url]

\* the candidates: sitemap N (an index), sitemap B (a leaf, or an index of A), or both
ListedCandidates ==
  {Listing(n, SubN, SubB, mixed) : n \in 0..MaxListed, mixed \in BOOLEAN}
  \cup {Listing(n, SubB, SubN, FALSE) : n \in 1..MaxListed}

IndexOf_(url, other, n, mixed) ==
  FetchOk([i \in 1..n |-> Loc(Listing(n, url, other, mixed)[i])])

\* N answers an index of B (and of A); B answers a page, an index of A, or nothing;
\* A answers a page
BoundsSites ==
  { [DeadSite EXCEPT !.subs = (SubA :> FetchOk(<<Loc(PageQ)>>)) @@ (SubB :> b) @@ (SubN :> n)] :
      b \in {FetchFailed, FetchOk(<<Loc(PageP)>>), IndexOf_(SubA, SubA, 2, FALSE)},
      n \in {IndexOf_(SubB, SubA, k, mixed) : k \in 1..MaxIndexed, mixed \in BOOLEAN} }

InitBounds ==
  /\ v1 = V1Idle /\ StoreEmpty
  /\ discover = DiscoverIdle /\ screenshot_jobs = <<>> /\ generate = GenerateIdle
  /\ watch = NoWatch /\ ticks = NoTicks
  /\ fn \in {Call("expandSitemapIndex: fetches", [site |-> site, sitemapUrls |-> sitemapUrls]) :
               site \in BoundsSites, sitemapUrls \in ListedCandidates}

NextBounds == ExpandSitemapIndexFetches

BoundsSpec == InitBounds /\ [][NextBounds]_vars

\* the positions of the log at which a candidate, not a nested entry, was fetched
SubAt(log) == {i \in 1..Len(log) : log[i].kind = "sub"}

\* the candidate under which the fetch at position i of the log was made
Under(log, i) == CHOOSE j \in SubAt(log) : j <= i /\ \A k \in SubAt(log) : k <= i => k <= j

\* the entries of the document that url answers on the site, none if it fails
Listed(site, url) ==
  IF site.subs[url].ok THEN [i \in 1..Len(site.subs[url].body) |-> site.subs[url].body[i].text]
  ELSE <<>>

\* the fetches made under the candidate at position j of the log
NestedUnder(log, j) == {i \in 1..Len(log) : log[i].kind = "nested" /\ Under(log, i) = j}

Least(a, b) == IF a < b THEN a ELSE b

\* C24: one expansion fetches the first 15 candidates and no others; under a candidate
\* whose document is judged an index it fetches that document's first 5 entries and no
\* others, and under any other candidate nothing; so nothing is fetched at a third
\* level, the fetches are at most 15 + 15 * 5, and the call returns whatever the
\* length of the lists.
C24_ExpansionBounds ==
  fn.op = "expandSitemapIndex: fetches" /\ fn.pc = "returned" =>
    LET log == fn.output
        site == fn.input.site
        subs == SelectSeq(log, LAMBDA e : e.kind = "sub")
    IN /\ [i \in 1..Len(subs) |-> subs[i].url]
            = SubSeq(fn.input.sitemapUrls, 1, Least(15, Len(fn.input.sitemapUrls)))
       /\ \A i \in 1..Len(log) : log[i].kind \in {"sub", "nested"}
       /\ Len(log) > 0 => log[1].kind = "sub"
       /\ \A j \in SubAt(log) :
            LET entries == Listed(site, log[j].url)
                index == 2 * Len(SelectSeq(entries, EndsInDotXml)) > Len(entries)
            IN /\ NestedUnder(log, j) = (j + 1)..(j + (IF index THEN Least(5, Len(entries)) ELSE 0))
               /\ \A i \in NestedUnder(log, j) : log[i].url = entries[i - j]
       /\ Len(log) <= 15 + 15 * 5

\* seventeen candidates that each answer an index of seven entries: 15 + 15 * 5 fetches
C24_Witness ==
  /\ fn.op = "expandSitemapIndex: fetches" /\ fn.pc = "returned"
  /\ Len(fn.input.sitemapUrls) = 17
  /\ \A i \in 1..17 : Len(Listed(fn.input.site, fn.input.sitemapUrls[i])) = 7
  /\ Len(fn.output) = 90

(***************************************************************************)
(* parseCSVFile on exports of Screaming Frog                               *)
(***************************************************************************)
EXPORT_ROWS == 50     \* rows of the large export
EXPORT_ERRORS == 5    \* its rows with status 404

\* the URL of row i of the large export
PageNo(i) == PageP \o <<ToString(i \div 10), ToString(i % 10)>>

\* EXPORT_ROWS rows with distinct URLs, all text/html: 404 at the rows of errors, 200
\* at the others
LargeExport(errors) ==
  [i \in 1..EXPORT_ROWS |->
     CsvRow(("Address" :> PageNo(i))
            @@ ("Status Code" :> IF i \in errors THEN STATUS_404 ELSE STATUS_200)
            @@ ("Content Type" :> TEXT_HTML))]

\* one row of every make: URL, status code and content type present or not, as the
\* filter wants them or not, under either spelling of the column
CellRows ==
  { CsvRow((u[1] :> u[2]) @@ (c[1] :> c[2]) @@ (t[1] :> t[2])) :
      u \in {<<"Address", PageP>>, <<"url", PageQ>>, <<"URL", <<"/","r">>>>,
             <<"address", <<"f","t","p",":","/","/","e">>>>, <<"Address", <<>>>>},
      c \in {<<"Status Code", STATUS_200>>, <<"status_code", STATUS_404>>,
             <<"Status Code", <<"2","0","0","0">>>>, <<"Status Code", <<" ","2","0","0">>>>,
             <<"Status Code", <<>>>>},
      t \in {<<"Content Type", TEXT_HTML>>, <<"content_type", <<"a">> \o TEXT_HTML \o <<";">>>>,
             <<"Content Type", <<"i","m","a","g","e","/","p","n","g">>>>,
             <<"Content Type", <<"T","E","X","T","/","H","T","M","L">>>>,
             <<"Content Type", <<>>>>} }

CsvInputs ==
  SeqsUpTo(CsvRows, MaxRows)
  \cup {<<row>> : row \in CellRows}
  \cup {<<row, row>> : row \in CellRows}
  \cup {LargeExport(k..(k + EXPORT_ERRORS - 1)) : k \in 1..(EXPORT_ROWS - EXPORT_ERRORS + 1)}
  \cup {LargeExport({})}

InitCsv ==
  /\ v1 = V1Idle /\ StoreEmpty
  /\ discover = DiscoverIdle /\ screenshot_jobs = <<>> /\ generate = GenerateIdle
  /\ watch = NoWatch /\ ticks = NoTicks
  /\ fn \in {Call("parseCSVFile", records) : records \in CsvInputs}

NextCsv == ParseCSVFile

CsvSpec == InitCsv /\ [][NextCsv]_vars

\* the first cell of the row that is not empty, among the columns named
Cell(row, names) ==
  IF \E i \in 1..Len(names) : row[names[i]] # <<>>
  THEN row[names[CHOOSE i \in 1..Len(names) :
                   row[names[i]] # <<>> /\ \A j \in 1..(i - 1) : row[names[j]] = <<>>]]
  ELSE <<>>

UrlCell(row) == Cell(row, <<"Address", "URL", "address", "url">>)

\* the row is one the export's reader is to keep
Wanted(row) ==
  /\ Len(UrlCell(row)) >= 4 /\ SubSeq(UrlCell(row), 1, 4) = <<"h","t","t","p">>
  /\ Cell(row, <<"Status Code", "status_code">>) \in {<<>>, <<"2","0","0">>}
  /\ LET type == Cell(row, <<"Content Type", "content_type">>)
     IN type = <<>> \/ \E i \in 1..Len(type) :
                          i + 8 <= Len(type)
                          /\ SubSeq(type, i, i + 8) = <<"t","e","x","t","/","h","t","m","l">>

\* C27: parseCSVFile returns, without duplicates and in the order of the export, the
\* URLs of exactly the rows whose URL starts with http, whose status code is absent or
\* exactly 200 and whose content type is absent or contains text/html; of 50 rows with
\* distinct URLs, 45 of them 200 and text/html and 5 of them 404, it returns 45 URLs.
C27_ExportFilter ==
  fn.op = "parseCSVFile" /\ fn.pc = "returned" =>
    LET rows == SelectSeq(fn.input, Wanted)
    IN /\ NoDuplicates(fn.output)
       /\ {fn.output[i] : i \in 1..Len(fn.output)} = {UrlCell(rows[i]) : i \in 1..Len(rows)}
       /\ \A i, j \in 1..Len(fn.output) :
            i < j => \E a, b \in 1..Len(rows) :
                       /\ a < b /\ UrlCell(rows[a]) = fn.output[i]
                       /\ UrlCell(rows[b]) = fn.output[j]
                       /\ \A c \in 1..(b - 1) : UrlCell(rows[c]) # fn.output[j]
       /\ (Len(fn.input) = 50
            /\ Cardinality({i \in 1..50 : fn.input[i]["Status Code"] = STATUS_404}) = 5)
           => Len(fn.output) = 45

\* an export of 50 rows, 5 of them in the middle with status 404, gave 45 URLs
C27_Witness ==
  /\ fn.op = "parseCSVFile" /\ fn.pc = "returned"
  /\ fn.input = LargeExport(21..25)
  /\ Len(fn.output) = 45
  /\ \A i \in 21..25 : \A j \in 1..45 : fn.output[j] # PageNo(i)

(***************************************************************************)
(* The screenshot worker on a dispatched batch, its ticks overlapping      *)
(***************************************************************************)
MaxShots == 3         \* URLs of the batch dispatched

ShotBatches ==
  {[GenerateIdle EXCEPT !.pc = "request", !.urls = [i \in 1..n |-> PageNo(i)]] :
     n \in 1..MaxShots}

InitShots ==
  /\ v1 = V1Idle /\ StoreEmpty
  /\ discover = DiscoverIdle /\ screenshot_jobs = <<>> /\ fn = NoCall
  /\ watch = NoWatch /\ ticks = NoTicks
  /\ generate \in ShotBatches

ScreenshotWorker ==
  \E w \in 1..MaxTicks :
    \/ ScreenshotPoll(w)
    \/ ScreenshotJobStart(w)
    \/ \E success \in BOOLEAN : ScreenshotJobEnd(w, success)

NextShots == GenerateScreenshots \/ ScreenshotWorker

ShotSpec == InitShots /\ [][NextShots]_vars

(***************************************************************************)
(* The page's poll watchers next to the workers that end the jobs          *)
(***************************************************************************)
\* the batch the page dispatches before it watches
WatchedBatch ==
  [GenerateIdle EXCEPT !.pc = "request", !.urls = <<PageP, PageQ>>]

InitWatch ==
  /\ v1 = V1Idle /\ StoreEmpty
  /\ discover = DiscoverIdle /\ screenshot_jobs = <<>> /\ fn = NoCall
  /\ ticks = NoTicks
  /\ \/ watch = [NoWatch EXCEPT !.kind = "crawl"] /\ generate = GenerateIdle
     \/ watch = [NoWatch EXCEPT !.kind = "screenshots"] /\ generate = WatchedBatch

\* the crawl job is queued and watched, and a worker whose calls do not overlap runs it
CrawlWatch ==
  \/ watch.kind = "crawl" /\ Enqueue(MaxTimed)
  \/ \E jobId \in 1..Len(crawl_jobs) : pollForJobStatus(jobId)
  \/ WorkerStep(1)
  \/ \E error \in BOOLEAN : CrawlPollReturn(error)

\* the batch is dispatched and watched, and the screenshot worker runs its jobs
ScreenshotWatch ==
  \/ GenerateScreenshots
  \/ pollForScreenshotJobs(generate.response.jobIds)
  \/ \E id \in 1..Len(screenshot_jobs) : processJobStart(id)
  \/ \E id \in 1..Len(screenshot_jobs), success \in BOOLEAN : processJobEnd(id, success)
  \/ \E error \in BOOLEAN : ScreenshotPollReturn(error)

NextWatch == CrawlWatch \/ ScreenshotWatch \/ PollTick \/ GiveUp

\* time passes, so the interval's callbacks and the give-up timer fire when they are due
WatchSpec == InitWatch /\ [][NextWatch]_vars /\ WF_vars(PollTick) /\ WF_vars(GiveUp)

\* C19: every poll watcher stops. No callback of the interval starts a query after a
\* poll has observed the crawl job completed or failed, or all watched screenshot jobs
\* terminal, nor after the give-up time (5 minutes for the crawl watcher, 10 minutes for
\* the screenshot watcher); the screenshot watcher is stopped by a poll only when the
\* watched jobs that are terminal are as many as the watched ids; giving up writes to
\* no job; and a watcher that was started does stop.
C19_WatchersStop ==
  /\ [][watch'.ticks > watch.ticks =>
          /\ watch.observed \notin {"completed", "failed", "all done"}
          /\ watch.timer = "set"
          /\ watch.kind = "crawl" => watch'.ticks * 3000 <= 5 * 60 * 1000
          /\ watch.kind = "screenshots" => watch'.ticks * 2000 <= 10 * 60 * 1000]_vars
  /\ [][watch.kind = "screenshots" /\ watch.interval = "set" /\ watch'.interval = "cleared"
          /\ watch'.timer = "set" =>
          Done(Watched(watch.jobIds)) = Len(watch.jobIds)]_vars
  /\ [][watch.timer = "set" /\ watch'.timer = "fired" =>
          UNCHANGED <<sitemap_jobs, crawl_jobs, screenshot_jobs>>]_vars
  /\ (watch.interval = "set") ~> (watch.interval = "cleared")

\* the crawl watcher gave up: its timer fired after 100 polls, none of which saw the
\* job end, and the job is still not terminal
C19_Witness ==
  /\ watch.kind = "crawl"
  /\ watch.timer = "fired"
  /\ watch.ticks = 100
  /\ watch.observed \notin {"completed", "failed"}
  /\ ~Terminal(crawl_jobs[watch.jobIds[1]].status)

(***************************************************************************)
(* The page watching a crawl job on both channels: poll loop and Realtime  *)
(***************************************************************************)
InitPush ==
  /\ v1 = V1Idle /\ StoreEmpty
  /\ discover = DiscoverIdle /\ screenshot_jobs = <<>> /\ fn = NoCall
  /\ generate = GenerateIdle /\ ticks = NoTicks
  /\ watch = [NoWatch EXCEPT !.kind = "crawl"]

NextPush ==
  \/ CrawlWatch
  \/ \E jobId \in 1..Len(watch.jobIds) : RealtimeUpdate(crawl_jobs[watch.jobIds[jobId]])
  \/ PollTick
  \/ GiveUp

PushSpec == InitPush /\ [][NextPush]_vars

(***************************************************************************)
(* The resolver's order of strategies                                      *)
(***************************************************************************)
\* the request was served by the strategy chain
V1Resolved ==
  /\ v1.pc = "responded"
  /\ v1.method = "POST" /\ v1.apiKey = "active" /\ v1.domain # <<>>

\* what one well-known path yields on its own, after expansion
PathYield(site, baseUrl, path) ==
  LET urls == trySitemapUrl(site, baseUrl, baseUrl \o path)
  IN IF urls.null \/ urls.urls = <<>> THEN <<>>
     ELSE IF isSitemapIndex(urls.urls) THEN expandSitemapIndex(site, baseUrl, urls.urls).urls
     ELSE urls.urls

\* the yields of the strategies in their order: robots.txt, then SITEMAP_PATHS
StrategyYields(site, baseUrl) ==
  <<TryRobotsTxt(site, baseUrl).foundUrls>>
  \o [i \in 1..Len(SITEMAP_PATHS) |-> PathYield(site, baseUrl, SITEMAP_PATHS[i])]

\* the candidates in their order, as fetches
Candidates(baseUrl) ==
  <<FetchEntry("robots", baseUrl \o ROBOTS_PATH)>>
  \o [i \in 1..Len(SITEMAP_PATHS) |-> FetchEntry("path", baseUrl \o SITEMAP_PATHS[i])]

IsCandidate(entry) == entry.kind \in {"robots", "path"}

\* C8: the resolver fetches robots.txt first and then the well-known paths in their
\* fixed order and stops at the first strategy that yields a URL after expansion: the
\* candidates it fetched are exactly those up to the first one that yields, it answers
\* with that strategy's list, and so with the list of /sitemap.xml when robots.txt
\* yields nothing and /sitemap.xml and /sitemap_index.xml both yield.
C8_FirstSuccessWins ==
  V1Resolved =>
    LET baseUrl == NormalizeBaseUrl(v1.domain)
        yields == StrategyYields(v1.site, baseUrl)
        hits == {k \in 1..Len(yields) : yields[k] # <<>>}
        tried == SelectSeq(v1.fetched, IsCandidate)
    IN IF hits = {}
       THEN /\ tried = Candidates(baseUrl)
            /\ ~v1.response.success /\ v1.response.urls = <<>>
       ELSE LET first == CHOOSE k \in hits : \A h \in hits : k <= h
            IN /\ tried = SubSeq(Candidates(baseUrl), 1, first)
               /\ v1.response.success /\ v1.response.urls = yields[first]

\* robots.txt yields nothing, /sitemap.xml and /sitemap_index.xml yield different lists,
\* and the answer carries the list of /sitemap.xml
C8_Witness ==
  /\ V1Resolved
  /\ LET baseUrl == NormalizeBaseUrl(v1.domain)
         yields == StrategyYields(v1.site, baseUrl)
     IN /\ yields[1] = <<>> /\ yields[2] # <<>> /\ yields[3] # <<>> /\ yields[2] # yields[3]
        /\ v1.response.urls = yields[2]
        /\ Len(SelectSeq(v1.fetched, IsCandidate)) = 2

(***************************************************************************)
(* Failing candidates                                                      *)
(***************************************************************************)
\* the discover request was served by the strategy chain
DiscoverServed ==
  /\ discover.pc = "responded"
  /\ discover.method = "POST" /\ discover.token = "valid" /\ discover.domain # <<>>

\* candidate k (robots.txt, then the well-known paths) fails on the site: no 2xx answer,
\* a timeout, an exception, or a body that is empty or not a sitemap
CandidateFailed(site, k) ==
  IF k = 1
  THEN Thrown(site.robots) \/ ~site.robots.ok \/ site.robots.lines = <<>>
  ELSE site.paths[k - 1] \in FetchFailures

\* after every failed candidate that was fetched, the next one was fetched
NextTried(site, baseUrl, fetched) ==
  LET tried == SelectSeq(fetched, IsCandidate)
  IN \A k \in 1..Len(tried) :
       CandidateFailed(site, k) /\ k < Len(Candidates(baseUrl)) =>
         Len(tried) > k /\ tried[k + 1] = Candidates(baseUrl)[k + 1]

NoStrategyYields(site, baseUrl) ==
  \A k \in 1..(Len(SITEMAP_PATHS) + 1) : StrategyYields(site, baseUrl)[k] = <<>>

\* C11: whatever way each candidate's fetch fails (non-2xx answer, timeout, exception,
\* empty or unparseable body), the handlers of the resolver answer without an error: a
\* failed candidate is followed by the fetch of the next one, and when no strategy yields
\* a URL the answer is the not-found one with an empty URL list, which in the discover
\* handler carries requiresCrawl.
C11_FailuresAreSkipped ==
  /\ V1Resolved =>
       /\ v1.response.code = 200
       /\ NextTried(v1.site, NormalizeBaseUrl(v1.domain), v1.fetched)
       /\ NoStrategyYields(v1.site, NormalizeBaseUrl(v1.domain)) =>
            ~v1.response.success /\ v1.response.urls = <<>>
  /\ DiscoverServed =>
       /\ discover.response.code = 200
       /\ NextTried(discover.site, NormalizeBaseUrl(discover.domain), discover.fetched)
       /\ NoStrategyYields(discover.site, NormalizeBaseUrl(discover.domain)) =>
            /\ ~discover.response.success
            /\ discover.response.urls = <<>>
            /\ discover.response.requiresCrawl

\* robots.txt timed out, /sitemap.xml threw, /sitemap_index.xml answered 404 and the
\* other paths answered a page that is no sitemap: all ten candidates were fetched and
\* the answer asks for a crawl
C11_Witness ==
  /\ DiscoverServed
  /\ discover.site.robots = AsRobots(FetchTimeout)
  /\ discover.site.paths[1] = FetchException
  /\ discover.site.paths[2] = FetchFailed
  /\ discover.site.paths[3] = FetchOk(NotXmlBody)
  /\ Len(SelectSeq(discover.fetched, IsCandidate)) = Len(SITEMAP_PATHS) + 1
  /\ discover.response.code = 200
  /\ discover.response.requiresCrawl
  /\ sitemap_jobs[discover.response.jobId].status = "failed"

(***************************************************************************)
(* Scheme and host of the fetches                                          *)
(***************************************************************************)
\* robots.txt and the well-known paths on https://{host}
HostUrls ==
  {HTTPS_SCHEME \o BaseHost \o ROBOTS_PATH}
  \cup {HTTPS_SCHEME \o BaseHost \o SITEMAP_PATHS[i] : i \in 1..Len(SITEMAP_PATHS)}

\* every fetch of a candidate in the log went to https://{host}, letter case aside
AgainstHost(fetched) ==
  \A i \in 1..Len(fetched) :
    IsCandidate(fetched[i]) => ToLowerCase(fetched[i].url) \in HostUrls

\* C15: whatever spelling of the host a discovery handler is given (http://, a leading
\* www., a port, a path, a query), its fetches of robots.txt and of the well-known
\* sitemap paths go to https://{host}: the spelling changes neither scheme nor host.
C15_FetchesAgainstHttpsHost ==
  /\ V1Resolved => AgainstHost(v1.fetched)
  /\ DiscoverServed => AgainstHost(discover.fetched)

(***************************************************************************)
(* The source tag                                                          *)
(***************************************************************************)
BULK_CRAWL == <<"b","u","l","k","_","c","r","a","w","l">>

SpecSourceTags == {SITEMAP_XML, SITEMAP_INDEX, SITEMAP_HTML, ROBOTS_TXT, BULK_CRAWL}

\* C9: the source tag the resolver returns with a result is one of sitemap_xml,
\* sitemap_index, sitemap_html, robots_txt, bulk_crawl, and a success through
\* /sitemap.xml carries sitemap_xml.
C9_SourceInEnum ==
  (V1Resolved /\ v1.response.success) =>
    /\ v1.response.source \in SpecSourceTags
    /\ LET baseUrl == NormalizeBaseUrl(v1.domain)
           tried == SelectSeq(v1.fetched, IsCandidate)
       IN tried[Len(tried)] = FetchEntry("path", baseUrl \o SITEMAP_PATHS[1])
            => v1.response.source = SITEMAP_XML

C1_TerminalImmutable ==
  [][/\ \A id \in 1..Len(sitemap_jobs) :
          Terminal(sitemap_jobs[id].status) => sitemap_jobs'[id] = sitemap_jobs[id]
     /\ \A id \in 1..Len(crawl_jobs) :
          Terminal(crawl_jobs[id].status) => crawl_jobs'[id] = crawl_jobs[id]]_vars

\* no call of processCrawlJob for crawl job id is under way
ProcessingOver(id) ==
  /\ history[id].marked > 0
  /\ \A w \in 1..MaxPolls : polls[w].job.id = id => polls[w].pc = "done"

\* C2: once the worker's processing of a crawl job that carries a sitemap job id is
\* over, the sitemap job holds the crawl job's terminal status: completed with the
\* crawl job's URL list, or failed with its error message.
C2_LinkedJobMirrors ==
  \A id \in 1..Len(crawl_jobs) :
    (crawl_jobs[id].sitemap_job_id # NULL_ID /\ ProcessingOver(id)) =>
      LET crawl == crawl_jobs[id]
          sitemap == sitemap_jobs[crawl.sitemap_job_id]
      IN /\ Terminal(crawl.status)
         /\ sitemap.status = crawl.status
         /\ crawl.status = "completed" => sitemap.urls = crawl.discovered_urls
         /\ crawl.status = "failed" => sitemap.error_message = crawl.error_message

\* C7: error_message is set only on a failed job: a pending, processing or completed
\* job of either table has none, a sitemap job that start-crawl re-opened included.
C7_ErrorOnlyWhenFailed ==
  /\ \A id \in 1..Len(sitemap_jobs) :
       sitemap_jobs[id].error_message # NULL_TEXT => sitemap_jobs[id].status = "failed"
  /\ \A id \in 1..Len(crawl_jobs) :
       crawl_jobs[id].error_message # NULL_TEXT => crawl_jobs[id].status = "failed"

(***************************************************************************)
(* Owners                                                                  *)
(***************************************************************************)
\* the crawl jobs that name sitemap job id
LinkedCrawls(table, id) == {c \in 1..Len(table) : table[c].sitemap_job_id = id}

\* C16: a request of principal P changes no job of another owner: a sitemap job whose
\* own discover request is over and that is named only by crawl jobs of other users
\* keeps all its fields, at start-crawl's update and when the crawl completes or fails.
C16_OwnJobsOnly ==
  [][\A id \in 1..Len(sitemap_jobs) :
       /\ id \notin discovers
       /\ LinkedCrawls(crawl_jobs', id) # {}
       /\ \A c \in LinkedCrawls(crawl_jobs', id) :
            crawl_jobs'[c].user_id # sitemap_jobs[id].user_id
       => sitemap_jobs'[id] = sitemap_jobs[id]]_vars

(***************************************************************************)
(* Lifecycle                                                               *)
(***************************************************************************)
StartRecorded(row) == "started_at" \in DOMAIN row /\ row.started_at # NULL_TIME

\* the step from row to next is one the lifecycle allows
LifecycleStep(row, next) ==
  /\ next.status = "completed" /\ row.status # "completed" => row.status = "processing"
  /\ row.status = "pending" /\ Terminal(next.status) => next.status = "failed"

\* C20: in all job tables, the sitemap jobs included, a job becomes completed only
\* from processing, a pending job reaches no terminal status but failed, and a job that
\* is processing or completed has its started_at recorded.
C20_Lifecycle ==
  /\ [](\A id \in 1..Len(sitemap_jobs) :
          sitemap_jobs[id].status \in {"processing", "completed"} =>
            StartRecorded(sitemap_jobs[id]))
  /\ [](\A id \in 1..Len(crawl_jobs) :
          crawl_jobs[id].status \in {"processing", "completed"} =>
            StartRecorded(crawl_jobs[id]))
  /\ [][/\ \A id \in 1..Len(sitemap_jobs) :
             LifecycleStep(sitemap_jobs[id], sitemap_jobs'[id])
        /\ \A id \in 1..Len(crawl_jobs) :
             LifecycleStep(crawl_jobs[id], crawl_jobs'[id])]_vars

(***************************************************************************)
(* Timestamps                                                              *)
(***************************************************************************)
\* C21: in every reachable state and for every job of either table, completed_at is
\* set exactly when the status is completed or failed: no pending or processing job
\* carries a completed_at, and every terminal job has one.
C21_CompletedAtIffTerminal ==
  /\ \A id \in 1..Len(sitemap_jobs) :
       sitemap_jobs[id].completed_at # NULL_TIME <=> Terminal(sitemap_jobs[id].status)
  /\ \A id \in 1..Len(crawl_jobs) :
       crawl_jobs[id].completed_at # NULL_TIME <=> Terminal(crawl_jobs[id].status)

(***************************************************************************)
(* The crawl worker                                                        *)
(***************************************************************************)
\* C3: when the timeout fires on a subprocess that has not exited, the worker sends it
\* SIGTERM and gives up on it at once with the timeout message, the subprocess still
\* running; the write that follows makes the crawl job failed with that message; and
\* so a crawl whose timeout has fired does not stay in processing.
C3_TimeoutFails ==
  /\ [][\A w \in 1..MaxPolls :
          /\ (procs[w].timeout = "armed" /\ procs'[w].timeout = "fired"
                /\ procs[w].state = "running") =>
               /\ procs'[w].signals = <<"SIGTERM">>
               /\ procs'[w].state = "running"
               /\ polls[w].pc = "waiting"
               /\ polls'[w].pc = "catch" /\ polls'[w].error = TimeoutMessage
               /\ polls'[w].job = polls[w].job
          /\ (polls[w].pc = "catch" /\ polls[w].error = TimeoutMessage
                /\ polls'[w].pc # "catch") =>
               /\ crawl_jobs'[polls[w].job.id].status = "failed"
               /\ crawl_jobs'[polls[w].job.id].error_message = TimeoutMessage]_vars
  /\ \A w \in 1..MaxPolls : \A id \in 1..MaxTimed :
       (polls[w].pc = "catch" /\ polls[w].error = TimeoutMessage /\ polls[w].job.id = id)
         ~> /\ id <= Len(crawl_jobs)
            /\ crawl_jobs[id].status = "failed"
            /\ crawl_jobs[id].error_message = TimeoutMessage

\* a crawl job is failed with the timeout message while the subprocess that was sent
\* SIGTERM for it is still running
C3_Witness ==
  \E w \in 1..MaxPolls :
    /\ procs[w].state = "running" /\ procs[w].signals = <<"SIGTERM">>
    /\ procs[w].timeout = "fired"
    /\ polls[w].pc \in {"propagateFailed", "done"}
    /\ crawl_jobs[polls[w].job.id].status = "failed"
    /\ crawl_jobs[polls[w].job.id].error_message = TimeoutMessage

\* C4: at most one crawl subprocess is running at any time.
C4_OneSubprocess ==
  Cardinality({w \in 1..MaxPolls : procs[w].state = "running"}) <= 1

\* C5: a crawl job is picked up at most once: it is moved to processing at most once
\* and at most one subprocess is ever spawned for it.
C5_PickedUpOnce ==
  \A id \in 1..Len(crawl_jobs) : history[id].marked <= 1 /\ history[id].spawned <= 1

\* C6: a step of the worker moves at most one crawl job to processing, and never a job
\* while a job created before it is still pending.
C6_OldestFirst ==
  [][LET moved == {b \in 1..Len(crawl_jobs) :
                     /\ crawl_jobs[b].status = "pending"
                     /\ crawl_jobs'[b].status = "processing"}
     IN /\ Cardinality(moved) <= 1
        /\ \A b \in moved : \A a \in 1..Len(crawl_jobs) :
             crawl_jobs[a].created_at < crawl_jobs[b].created_at
               => crawl_jobs[a].status # "pending"]_vars

\* two jobs were pending together, the older one has been moved to processing and the
\* younger one is still pending
C6_Witness ==
  /\ Len(crawl_jobs) >= 2
  /\ crawl_jobs[1].created_at < crawl_jobs[2].created_at
  /\ crawl_jobs[1].status = "processing" /\ history[1].marked = 1
  /\ crawl_jobs[2].status = "pending" /\ history[2].marked = 0

\* C22: when the grace period ends on a subprocess that was sent SIGTERM and has not
\* exited, the worker sends it SIGKILL: no subprocess is running after the timeout and
\* the grace period without having been sent SIGKILL.
C22_KillAfterGrace ==
  \A w \in 1..MaxPolls :
    (procs[w].grace = "fired" /\ procs[w].state = "running") =>
      \E i \in 1..Len(procs[w].signals) : procs[w].signals[i] = "SIGKILL"

\* C23: one outcome per crawl run, the first one. A close that comes after the timeout
\* has fired leaves the outcome of the run as it is, exit code 0 included, so the run
\* never goes on to parse and complete; a close that comes first cancels the timeout
\* timer, and after that the run gets no timeout failure and its subprocess no signal;
\* and once the run has written its terminal status it writes no crawl job again.
C23_FirstOutcomeWins ==
  /\ [][\A w \in 1..MaxPolls :
          /\ (procs[w].state = "running" /\ procs'[w].state # "running"
                /\ procs[w].timeout = "fired") =>
               polls'[w] \in {polls[w], IdlePoll}
          /\ (procs[w].state = "running" /\ procs'[w].state # "running"
                /\ procs[w].timeout = "armed") =>
               procs'[w].timeout = "cleared"
          /\ procs[w].timeout = "cleared" =>
               /\ procs'[w].timeout \in {"cleared", "none"}
               /\ procs'[w].signals = <<>> /\ procs'[w].grace = "none"
               /\ polls'[w].error # TimeoutMessage
          /\ (polls[w].pc \in {"propagate", "propagateFailed", "done"}
                /\ polls'[w] # polls[w]) =>
               crawl_jobs' = crawl_jobs]_vars
  /\ [](\A w \in 1..MaxPolls :
          polls[w].pc \in {"parse", "propagate"} => procs[w].timeout = "cleared")

\* the timeout fired first and the run wrote failed with the timeout message; the
\* subprocess has exited since, and the job is still failed with that message
C23_Witness ==
  \E w \in 1..MaxPolls :
    /\ procs[w].state = "exited" /\ procs[w].timeout = "fired"
    /\ polls[w].pc = "propagateFailed" /\ polls[w].error = TimeoutMessage
    /\ crawl_jobs[polls[w].job.id].status = "failed"
    /\ crawl_jobs[polls[w].job.id].error_message = TimeoutMessage

\* the call in slot w leaves the state `from` for the state `to`
Moves(w, from, to) == polls[w].pc = from /\ polls'[w].pc = to

\* C25: a run whose subprocess closes with a non-zero exit code fails with a message
\* that holds the captured stderr, a run whose subprocess cannot be spawned fails, and
\* a run whose subprocess exits 0 but left no readable export fails without writing
\* completed; the write that follows every such failure makes the crawl job failed with
\* the run's non-empty message; the call then returns, and with a pending job and all
\* calls returned the worker's next tick picks a job up.
C25_FailuresAreRecorded ==
  /\ [][\A w \in 1..MaxPolls :
          /\ (Moves(w, "waiting", polls'[w].pc) /\ procs'[w].state = "exited"
                /\ procs'[w].exit # 0) =>
               /\ polls'[w].pc = "catch"
               /\ \E stderr \in Stderrs :
                    /\ polls'[w].error = ExitMessage(procs'[w].exit, stderr)
                    /\ \E i \in 1..Len(polls'[w].error) : polls'[w].error[i] = stderr
          /\ (polls[w].pc = "picked" /\ procs'[w].state = "failed") =>
               polls'[w].pc = "catch" /\ polls'[w].error # NULL_TEXT
          /\ (polls[w].pc = "parse" /\ polls'[w].export \in {"missing", "unreadable"}) =>
               /\ polls'[w].pc = "catch" /\ polls'[w].error # NULL_TEXT
               /\ crawl_jobs' = crawl_jobs
          /\ (polls[w].pc = "catch" /\ polls'[w].pc # "catch") =>
               /\ polls'[w].pc = "propagateFailed"
               /\ polls[w].error # NULL_TEXT
               /\ crawl_jobs'[polls[w].job.id].status = "failed"
               /\ crawl_jobs'[polls[w].job.id].error_message = polls[w].error
          /\ (polls[w].pc = "propagateFailed" /\ polls'[w].pc # "propagateFailed") =>
               polls'[w].pc \in {"done", "idle"} /\ crawl_jobs' = crawl_jobs]_vars
  /\ []((PendingCrawlJobs # {} /\ \A w \in 1..MaxPolls : polls[w].pc = "idle")
          => ENABLED pollForJobs(1))

\* the crawl of job 1 exited with code 1 and the job is failed with the message that
\* holds the stderr; the worker has picked up job 2 since
C25_Witness ==
  /\ Len(crawl_jobs) = 2
  /\ crawl_jobs[1].status = "failed"
  /\ crawl_jobs[1].error_message = ExitMessage(1, "licence")
  /\ history[1].marked = 1
  /\ crawl_jobs[2].status = "processing" /\ history[2].marked = 1

\* C26: once the processing of a crawl job is over, completed or failed, its output
\* directory is gone unless its removal failed; and a removal that fails leaves the
\* status of the job as it was.
C26_OutputDirRemoved ==
  /\ [](\A id \in 1..Len(crawl_jobs) :
          ProcessingOver(id) => history[id].outputDir \in {"absent", "stuck"})
  /\ [][\A id \in 1..Len(crawl_jobs) :
          (history[id].outputDir # "stuck" /\ history'[id].outputDir = "stuck") =>
            crawl_jobs'[id].status = crawl_jobs[id].status]_vars

\* C28: with every tick of the worker's interval happening and every crawl subprocess
\* exiting or running into the timeout, every crawl job that is pending is completed or
\* failed at some later time: none stays pending or processing for ever.
C28_EveryJobEnds ==
  \A id \in 1..MaxLive :
    (id <= Len(crawl_jobs) /\ crawl_jobs[id].status = "pending")
      ~> (id <= Len(crawl_jobs) /\ crawl_jobs[id].status \in {"completed", "failed"})

\* both jobs of the queue have ended, the second one after a crawl that ran into the
\* timeout, and every call of the worker has returned
C28_Witness ==
  /\ Len(crawl_jobs) = 2
  /\ Terminal(crawl_jobs[1].status)
  /\ crawl_jobs[2].status = "failed" /\ crawl_jobs[2].error_message = TimeoutMessage
  /\ \A w \in 1..MaxPolls : polls[w].pc = "idle"

(***************************************************************************)
(* The screenshot worker                                                   *)
(***************************************************************************)
\* C29: every screenshot job is captured at most once: takeScreenshot is called at most
\* once for it, and the write of status processing that precedes the call finds the job
\* pending, never processing already, completed or failed.
C29_CapturedOnce ==
  /\ [](\A id \in 1..Len(screenshot_jobs) : Taken(id) <= 1)
  /\ [][\A id \in 1..Len(screenshot_jobs) :
          (id \in DOMAIN ticks'.taken /\ ticks'.taken[id] > Taken(id)) =>
            screenshot_jobs[id].status = "pending"]_vars

(***************************************************************************)
(* The page's two channels                                                 *)
(***************************************************************************)
\* C30: the page applies the terminal outcome of a watched crawl job once: it is never
\* applied a second time, and once it is applied, by the poll loop or by the Realtime
\* callback, the poll loop is stopped and the channel unsubscribed.
C30_AppliedOnce ==
  /\ watch.applied <= 1
  /\ watch.applied >= 1 => watch.interval = "cleared" /\ watch.channel = "unsubscribed"

====
